---- MODULE Spec2Model ----
(***************************************************************************)
(* Model of the Sentinel orchestration core:                               *)
(*   sentinel/tools/registry.py          ToolRegistry (call, audit log)    *)
(*   sentinel/orchestration/policies.py  BudgetPolicy, ApprovalPolicy      *)
(*   sentinel/orchestration/graph.py     Graph, ExecutionContext           *)
(*   sentinel/orchestration/orchestrator.py  Orchestrator.run and stages   *)
(*   sentinel/agents/investigation.py, executor.py  the agents' tool use   *)
(*   sentinel/orchestration/verifier.py  Verifier.verify                   *)
(* sentinel/types.py (Budget, ToolResult) is not part of the sources; the  *)
(* definitions that stand for it are marked where they appear.             *)
(***************************************************************************)
EXTENDS Integers, Sequences, FiniteSets, TLC

(***************************************************************************)
(* Bounds of the model.                                                    *)
(***************************************************************************)
\* number of direct ToolRegistry.call invocations explored
MaxCalls == 2
\* largest ceiling / counter value a Budget is given
MaxCeil == 2
\* largest wall-clock duration (in whole seconds) of one stage
MaxDur == 1
\* largest number of tool calls the investigation agent makes in one run
MaxInvCalls == 2
\* largest number of actions in a plan handed to the approval policy
MaxActions == 2
\* number of nodes added, edges added and nodes executed by a graph client
MaxOps == 5
\* number of ToolRegistry methods a registry client calls, call included
MaxRegOps == 4
\* the largest token total the language model's responses to a stage report
MaxTokens == 1
\* number of node executions a run over a cyclic graph is followed for
MaxLoop == 10
\* calls a client makes on a TraceRecorder
MaxTraceOps == 3

(***************************************************************************)
(* Enumerations (sentinel.types, as used by registry.py / policies.py).    *)
(***************************************************************************)
PermissionLevel == {"guest", "operator", "admin"}
RiskLevel == {"read_only", "safe_write", "risky_write"}

Null == "null"

\* the args mappings a caller passes: key -> value, where a value may be
\* None (Null)
ArgsChoices ==
    {[k \in {} |-> Null],
     "service" :> "api",
     "service" :> Null,
     ("service" :> "api") @@ ("metric" :> "cpu_percent")}

\* tool names a caller may pass; "no_such_tool" is never registered
ToolNames == {"query_metrics", "update_config", "restart_service", "no_such_tool"}

\* the specifications registered at start-up (ToolSpec: risk level, required
\* permission, required input fields; every registered tool has a handler)
RegisteredTools ==
    [n \in {"query_metrics", "update_config", "restart_service"} |->
        CASE n = "query_metrics" ->
                [name |-> n, risk_level |-> "read_only",
                 permission_required |-> "guest",
                 required |-> {"service", "metric"}]
          [] n = "update_config" ->
                [name |-> n, risk_level |-> "safe_write",
                 permission_required |-> "admin",
                 required |-> {}]
          [] OTHER ->
                [name |-> n, risk_level |-> "risky_write",
                 permission_required |-> "operator",
                 required |-> {"service"}]]

VARIABLES
    \* ---- ToolRegistry ----
    tools,          \* ToolRegistry._tools : name -> ToolSpec
    tool_order,     \* the insertion order of ToolRegistry._tools (its names)
    audit_log,      \* ToolRegistry._audit_log : sequence of AuditRecord
    handler_calls,  \* per tool: how many times its handler was invoked
    call_count,     \* how many times ToolRegistry.call was entered
    last_call,      \* {arguments of the latest ToolRegistry.call} (or {})
    last_result,    \* {ToolResult returned by the latest call} (or {})
    reg_op,         \* {the latest register / list_tools call and its outcome}
    log_seen,       \* {the list the latest get_audit_log returned} (or {})
    reg_ops,        \* how many register / list_tools / get_audit_log calls
    \* ---- BudgetPolicy probe ----
    probe_in,       \* {the policy and budget a client holds} (or {})
    probe,          \* {what the policy answered about them} (or {})
    \* ---- Orchestrator: construction parameters and the task ----
    caller_permission,      \* Orchestrator.caller_permission
    approval_policy,        \* Orchestrator.approval_policy
    use_real_verification,  \* Verifier.use_real_verification
    symptoms,               \* task.symptoms, as far as the verifier reads it
    initial_budget,         \* task.budget as the task arrived
    budget_policy,          \* Orchestrator.budget_policy
    llm_token_counts,       \* the token totals the language model's responses
                            \*   to one stage may report (LLMResponse.tokens_used)
    task_status,            \* task.status
    budget,                 \* task.budget
    \* ---- Graph and ExecutionContext ----
    nodes,          \* Graph._nodes : name -> [status, error, result]
    transitions,    \* Graph._transitions : sequence of StateTransition
    edges,          \* Graph._edges : from_node -> sequence of to_node
    context,        \* ExecutionContext of the run
    \* ---- Orchestrator.run ----
    pc,             \* position in run: "idle" (run is not called), "init",
                    \*   "check", "execute", "record",
                    \*   "finish", "returned", "raised"
    current_node,   \* the loop's current_node (Null when the walk has ended)
    step,           \* (success, result, error) of the latest execute_node,
                    \*   with the stage's wall-clock duration
    run_result,     \* the Report run returned (or Null)
    run_error,      \* the error run raised (or Null)
    \* ---- bookkeeping for the properties ----
    handlers_started,   \* names of the stage handlers invoked, in order
    executor_runs,      \* how many times ExecutorAgent.run was invoked
    run_calls,          \* per stage: ToolRegistry.call invocations it made
    verifier_raised,    \* whether Verifier.verify raised in this run
    llm_tokens,         \* tokens the run's language-model responses reported
    \* ---- TraceRecorder ----
    tracer,         \* Orchestrator.tracer: the TraceRecorder's spans, events,
                    \*   metrics, and the lines of its trace file
    sink_ok,        \* whether the trace file can be written at present
    trace_op,       \* {the latest call a client made on the tracer} (or {})
    trace_ops,      \* how many calls a client has made on the tracer
    \* ---- a client driving a Graph of its own ----
    graph_call,     \* {the latest Graph method call and its outcome} (or {})
    exec_log,       \* the execute_node calls made: node, success, result
    walk_node       \* the client loop's current node (Null: no walk going on)

callVars == <<audit_log, handler_calls, call_count, last_call, last_result>>
regVars == <<tools, tool_order, callVars, reg_op, log_seen, reg_ops>>
polVars == <<probe_in, probe>>
cfgVars == <<caller_permission, approval_policy, use_real_verification, symptoms,
             initial_budget, budget_policy, llm_token_counts>>
graphVars == <<nodes, transitions, edges, context>>
runVars == <<task_status, budget, pc, current_node, step, run_result, run_error,
             handlers_started, executor_runs, run_calls, verifier_raised,
             llm_tokens>>
traceVars == <<tracer, sink_ok, trace_op, trace_ops>>
orchVars == <<cfgVars, graphVars, runVars, traceVars>>
clientVars == <<graph_call, exec_log, walk_node>>
vars == <<regVars, polVars, orchVars, clientVars>>

(***************************************************************************)
(* ToolRegistry                                                            *)
(***************************************************************************)
EmptyMetadata == [k \in {} |-> Null]

\* ToolResult(success=..., data=..., error=...): metadata defaults to empty
ToolResult(success, data, error) ==
    [success |-> success, data |-> data, error |-> error,
     metadata |-> EmptyMetadata]

permission_level_value(level) ==
    CASE level = "guest" -> 1
      [] level = "operator" -> 2
      [] level = "admin" -> 3

\* variant: the comparison is written the wrong way round
check_permission_reversed(caller, required) ==
    permission_level_value(caller) <= permission_level_value(required)

check_permission(caller, required) ==
    permission_level_value(caller) >= permission_level_value(required)

AuditRecord(tool_name, caller, args, risk_level, dry_run, success, error) ==
    [tool_name |-> tool_name, caller_permission |-> caller,
     args |-> args, risk_level |-> risk_level, dry_run |-> dry_run,
     success |-> success, error |-> error]

\* variant: the newest record is put at the front of the log
record_audit_in_front(log, tool_name, caller, args, risk_level, dry_run, success, error) ==
    <<AuditRecord(tool_name, caller, args, risk_level, dry_run, success, error)>>
        \o log

\* ToolRegistry._record_audit: the log with one more record
record_audit(log, tool_name, caller, args, risk_level, dry_run, success, error) ==
    Append(log, AuditRecord(tool_name, caller, args, risk_level, dry_run,
                            success, error))

\* variant: a rejected call is returned without being audited
rejected_unaudited(log, tool_name, caller, args, risk_level, dry_run, error) ==
    [result  |-> ToolResult(FALSE, Null, error),
     audit_log |-> log,
     invoked |-> FALSE,
     raised  |-> FALSE]

\* the three early returns of ToolRegistry.call (unknown tool, permission
\* denied, required field missing): a failure is audited and returned as a
\* bare ToolResult; the handler is not reached
rejected(log, tool_name, caller, args, risk_level, dry_run, error) ==
    [result  |-> ToolResult(FALSE, Null, error),
     audit_log |-> record_audit(log, tool_name, caller, args, risk_level,
                                dry_run, FALSE, error),
     invoked |-> FALSE,
     raised  |-> FALSE]

\* variant: the handler's exception is not caught; it leaves call
executed_propagating(log, tool, tool_name, caller, args, dry_run, handler_raises) ==
    LET synthetic == dry_run /\ tool.risk_level # "read_only"
        failed    == ~synthetic /\ handler_raises
        result    == IF synthetic
                     THEN ToolResult(TRUE, "would_execute", Null)
                     ELSE ToolResult(TRUE, "handler_data", Null)
    IN [result  |-> [result EXCEPT !.metadata =
                        [tool_name   |-> tool_name,
                         risk_level  |-> tool.risk_level,
                         duration_ms |-> "elapsed",
                         dry_run     |-> dry_run]],
        audit_log |-> IF failed THEN log
                      ELSE record_audit(log, tool_name, caller, args,
                                        tool.risk_level, dry_run, TRUE, Null),
        invoked |-> ~synthetic,
        raised  |-> failed]

\* the "Execute tool" part of ToolRegistry.call: synthetic result for a
\* dry-run of a non-read-only tool, else the handler (whose exception is
\* caught); then the audit record and the metadata.  Nothing is raised.
executed(log, tool, tool_name, caller, args, dry_run, handler_raises) ==
    LET synthetic == dry_run /\ tool.risk_level # "read_only"
        result    == IF synthetic
                     THEN ToolResult(TRUE, "would_execute", Null)
                     ELSE IF handler_raises
                     THEN ToolResult(FALSE, Null, "execution_failed")
                     ELSE ToolResult(TRUE, "handler_data", Null)
    IN [result  |-> [result EXCEPT !.metadata =
                        [tool_name   |-> tool_name,
                         risk_level  |-> tool.risk_level,
                         duration_ms |-> "elapsed",
                         dry_run     |-> dry_run]],
        audit_log |-> record_audit(log, tool_name, caller, args,
                                   tool.risk_level, dry_run,
                                   result.success, result.error),
        invoked |-> ~synthetic,
        raised  |-> FALSE]

\* variant: a required field whose value is None counts as missing
missing_fields_unless_valued(tool, args) ==
    {f \in tool.required : f \notin DOMAIN args \/ args[f] = Null}

\* the required fields of the tool's input schema that are not keys of args
missing_fields(tool, args) ==
    {f \in tool.required : f \notin DOMAIN args}

\* ToolRegistry.call as a function of the registry's tools and audit log and
\* the call's inputs; handler_raises says whether the handler, if invoked,
\* raises.  Yields the returned ToolResult, the audit log afterwards and
\* whether the handler was invoked, and whether call raised instead of
\* returning.
\* variant: the dry-run branch is taken as soon as the tool is known
call_dry_run_first(tls, log, tool_name, args, caller, dry_run, handler_raises) ==
    IF tool_name \notin DOMAIN tls
    THEN rejected(log, tool_name, caller, args, "read_only", dry_run,
                  "not_found")
    ELSE LET tool == tls[tool_name] IN
      IF dry_run /\ tool.risk_level # "read_only"
      THEN executed(log, tool, tool_name, caller, args, dry_run, handler_raises)
      ELSE IF ~check_permission(caller, tool.permission_required)
      THEN rejected(log, tool_name, caller, args, tool.risk_level, dry_run,
                    "permission_denied")
      ELSE IF missing_fields(tool, args) # {}
      THEN rejected(log, tool_name, caller, args, tool.risk_level, dry_run,
                    "missing_fields")
      ELSE executed(log, tool, tool_name, caller, args, dry_run, handler_raises)

call(tls, log, tool_name, args, caller, dry_run, handler_raises) ==
    IF tool_name \notin DOMAIN tls
    THEN rejected(log, tool_name, caller, args, "read_only", dry_run,
                  "not_found")
    ELSE LET tool == tls[tool_name] IN
      IF ~check_permission(caller, tool.permission_required)
      THEN rejected(log, tool_name, caller, args, tool.risk_level, dry_run,
                    "permission_denied")
      ELSE IF missing_fields(tool, args) # {}
      THEN rejected(log, tool_name, caller, args, tool.risk_level, dry_run,
                    "missing_fields")
      ELSE executed(log, tool, tool_name, caller, args, dry_run, handler_raises)

\* one ToolRegistry.call with the given inputs, and what it leaves behind
CallWith(tool_name, args, caller, dry_run, handler_raises) ==
    LET out == call(tools, audit_log, tool_name, args, caller, dry_run,
                    handler_raises)
    IN /\ audit_log' = out.audit_log
       /\ handler_calls' =
             IF out.invoked
             THEN [handler_calls EXCEPT ![tool_name] = @ + 1]
             ELSE handler_calls
       /\ call_count' = call_count + 1
       /\ last_call' = {[tool_name |-> tool_name, args |-> args,
                         caller_permission |-> caller,
                         dry_run |-> dry_run,
                         handler_raised |-> out.invoked /\ handler_raises,
                         raised |-> out.raised,
                         handlers_before |-> handler_calls,
                         audit_before |-> audit_log]}
       /\ last_result' = IF out.raised THEN {} ELSE {out.result}

\* a client calls ToolRegistry.call directly
RegistryCall ==
    /\ call_count < MaxCalls
    /\ \E tool_name \in ToolNames, args \in ArgsChoices,
          caller \in PermissionLevel, dry_run \in BOOLEAN,
          handler_raises \in BOOLEAN :
          CallWith(tool_name, args, caller, dry_run, handler_raises)
    /\ UNCHANGED <<tools, tool_order, reg_op, log_seen, reg_ops, polVars,
                   orchVars, clientVars>>

\* the registry once the start-up registrations are done, nothing called yet
RegInit ==
    /\ tools = RegisteredTools
    /\ tool_order = <<"query_metrics", "update_config", "restart_service">>
    /\ audit_log = <<>>
    /\ handler_calls = [n \in ToolNames \cup {"check_disk"} |-> 0]
    /\ call_count = 0
    /\ last_call = {}
    /\ last_result = {}
    /\ reg_op = {}
    /\ log_seen = {}
    /\ reg_ops = 0

(***************************************************************************)
(* ToolRegistry: register, list_tools, get_audit_log, and a client that    *)
(* uses them between its calls                                             *)
(***************************************************************************)
\* variant: registering a name again replaces the specification
register_replacing(tls, order, spec, handler) ==
    IF handler = Null
    THEN [raised |-> TRUE, tools |-> tls, tool_order |-> order]
    ELSE [raised |-> FALSE,
          tools |-> [n \in DOMAIN tls \cup {spec.name} |->
                        IF n = spec.name THEN spec ELSE tls[n]],
          tool_order |-> IF spec.name \in DOMAIN tls THEN order
                         ELSE Append(order, spec.name)]

\* ToolRegistry.register (handler stands for spec.handler): ValueError for a
\* name already registered or a missing handler, else the spec is stored
register(tls, order, spec, handler) ==
    IF spec.name \in DOMAIN tls
    THEN [raised |-> TRUE, tools |-> tls, tool_order |-> order]
    ELSE IF handler = Null
    THEN [raised |-> TRUE, tools |-> tls, tool_order |-> order]
    ELSE [raised |-> FALSE,
          tools |-> [n \in DOMAIN tls \cup {spec.name} |->
                        IF n = spec.name THEN spec ELSE tls[n]],
          tool_order |-> Append(order, spec.name)]

\* variant: the permission filter is written with a strict comparison
listed_for_strictly_lower(tool, permission_level) ==
    permission_level_value(tool.permission_required)
        < permission_level_value(permission_level)

\* the permission filter of list_tools
listed_for(tool, permission_level) ==
    permission_level_value(tool.permission_required)
        <= permission_level_value(permission_level)

\* the tools of _tools.values(), in insertion order, that pass both filters
\* (a filter left at None passes everything)
RECURSIVE select_tools(_, _, _, _)
select_tools(tls, order, risk_level, permission_level) ==
    IF order = <<>> THEN <<>>
    ELSE LET t    == tls[Head(order)]
             rest == select_tools(tls, Tail(order), risk_level, permission_level)
         IN IF /\ (risk_level = Null \/ t.risk_level = risk_level)
               /\ (permission_level = Null \/ listed_for(t, permission_level))
            THEN <<t>> \o rest
            ELSE rest

\* variant: tools that were already called are left out of the list
list_tools_not_yet_called(tls, order, risk_level, permission_level) ==
    select_tools(tls,
                 SelectSeq(order, LAMBDA n :
                     \A i \in 1..Len(audit_log) : audit_log[i].tool_name # n),
                 risk_level, permission_level)

\* ToolRegistry.list_tools
list_tools(tls, order, risk_level, permission_level) ==
    select_tools(tls, order, risk_level, permission_level)

\* ToolRegistry.get_audit_log: a copy of the log as it is now
get_audit_log(log) == log

\* the specifications a client tries to register: a new tool, and a name
\* that is registered already, now with a laxer specification
RegisterChoices ==
    {[name |-> "check_disk", risk_level |-> "read_only",
      permission_required |-> "guest", required |-> {"service"}],
     [name |-> "restart_service", risk_level |-> "read_only",
      permission_required |-> "guest", required |-> {}]}

\* the (risk_level, permission_level) filters a client lists with
ListFilters ==
    {[risk_level |-> Null, permission_level |-> Null],
     [risk_level |-> Null, permission_level |-> "guest"],
     [risk_level |-> Null, permission_level |-> "operator"],
     [risk_level |-> Null, permission_level |-> "admin"],
     [risk_level |-> "read_only", permission_level |-> Null]}

\* the calls the client makes between its other operations: tool, caller,
\* dry_run flag, and whether the handler, if invoked, raises
ClientCallChoices ==
    {[tool_name |-> c[1], args |-> "service" :> "api", caller |-> c[2],
      dry_run |-> c[3], handler_raises |-> c[4]] :
        c \in {<<"check_disk", "guest", FALSE, FALSE>>,
               <<"check_disk", "operator", TRUE, TRUE>>,
               <<"restart_service", "guest", FALSE, FALSE>>,
               <<"restart_service", "operator", TRUE, FALSE>>,
               <<"restart_service", "operator", FALSE, FALSE>>,
               <<"restart_service", "admin", FALSE, TRUE>>}}

\* how many ToolRegistry methods the client has called
OpsDone == reg_ops + call_count

\* a client registers a tool
Register ==
    /\ OpsDone < MaxRegOps
    /\ \E spec \in RegisterChoices, handler \in {"handler", Null} :
          LET out == register(tools, tool_order, spec, handler)
          IN /\ tools' = out.tools
             /\ tool_order' = out.tool_order
             /\ reg_op' = {[op |-> "register", spec |-> spec,
                            handler |-> handler, raised |-> out.raised,
                            ops_before |-> OpsDone,
                            tools_before |-> tools,
                            order_before |-> tool_order]}
    /\ reg_ops' = reg_ops + 1
    /\ UNCHANGED <<callVars, log_seen, polVars, orchVars, clientVars>>

\* the list_tools results obtained since the latest register
ListedSinceRegister ==
    UNION {IF o.op = "list_tools"
           THEN o.earlier \cup
                {[risk_level |-> o.risk_level,
                  permission_level |-> o.permission_level,
                  returned |-> o.returned, calls_before |-> o.calls_before,
                  ops_before |-> o.ops_before]}
           ELSE {} : o \in reg_op}

\* a client lists the tools
ListTools ==
    /\ OpsDone < MaxRegOps
    /\ \E f \in ListFilters :
          reg_op' = {[op |-> "list_tools", risk_level |-> f.risk_level,
                      permission_level |-> f.permission_level,
                      returned |-> list_tools(tools, tool_order, f.risk_level,
                                              f.permission_level),
                      calls_before |-> call_count,
                      ops_before |-> OpsDone,
                      earlier |-> ListedSinceRegister]}
    /\ reg_ops' = reg_ops + 1
    /\ UNCHANGED <<tools, tool_order, callVars, log_seen, polVars, orchVars,
                   clientVars>>

\* a client reads the audit log
GetAuditLog ==
    /\ OpsDone < MaxRegOps
    /\ log_seen' = {[log |-> get_audit_log(audit_log), ops_before |-> OpsDone]}
    /\ reg_ops' = reg_ops + 1
    /\ UNCHANGED <<tools, tool_order, callVars, reg_op, polVars, orchVars,
                   clientVars>>

\* the client calls a tool
ClientCall ==
    /\ OpsDone < MaxRegOps
    /\ call_count < MaxCalls
    /\ \E c \in ClientCallChoices :
          CallWith(c.tool_name, c.args, c.caller, c.dry_run, c.handler_raises)
    /\ UNCHANGED <<tools, tool_order, reg_op, log_seen, reg_ops, polVars,
                   orchVars, clientVars>>

(***************************************************************************)
(* Budget (sentinel.types) and BudgetPolicy (policies.py)                  *)
(***************************************************************************)
\* Budget.is_exceeded(): any counter has reached its ceiling
is_exceeded(b) ==
    \/ b.tokens_used >= b.max_tokens
    \/ b.time_used >= b.max_time_seconds
    \/ b.tool_calls_used >= b.max_tool_calls

\* Budget.record_time_usage(seconds)
record_time_usage(b, seconds) ==
    [b EXCEPT !.time_used = @ + seconds]

\* BudgetPolicy.create_budget(): the policy's ceilings, counters at zero
create_budget(policy) ==
    [max_tokens |-> policy.max_tokens,
     max_time_seconds |-> policy.max_time_seconds,
     max_tool_calls |-> policy.max_tool_calls,
     tokens_used |-> 0, time_used |-> 0, tool_calls_used |-> 0]

\* variant: the policy compares the counters with its own ceilings
is_budget_exceeded_own_ceilings(policy, b) ==
    \/ b.tokens_used >= policy.max_tokens
    \/ b.time_used >= policy.max_time_seconds
    \/ b.tool_calls_used >= policy.max_tool_calls

\* BudgetPolicy.is_budget_exceeded(budget): asks the budget itself
is_budget_exceeded(policy, b) == is_exceeded(b)

Max(a, b) == IF a >= b THEN a ELSE b

\* BudgetPolicy.get_remaining_budget(budget)
get_remaining_budget(policy, b) ==
    [tokens |-> Max(0, b.max_tokens - b.tokens_used),
     time_seconds |-> Max(0, b.max_time_seconds - b.time_used),
     tool_calls |-> Max(0, b.max_tool_calls - b.tool_calls_used)]

BudgetPolicies ==
    [max_tokens : 0..MaxCeil, max_time_seconds : 0..MaxCeil,
     max_tool_calls : 0..MaxCeil]

Budgets ==
    [max_tokens : 0..MaxCeil, max_time_seconds : 0..MaxCeil,
     max_tool_calls : 0..MaxCeil,
     tokens_used : 0..MaxCeil, time_used : 0..MaxCeil,
     tool_calls_used : 0..MaxCeil]

\* a client asks a BudgetPolicy about a Budget it holds
ProbeBudget ==
    /\ probe = {}
    /\ \E q \in probe_in :
          probe' = {[policy |-> q.policy, budget |-> q.budget,
                     exceeded |-> is_budget_exceeded(q.policy, q.budget),
                     remaining |-> get_remaining_budget(q.policy, q.budget)]}
    /\ UNCHANGED <<regVars, probe_in, orchVars, clientVars>>

\* a client asks a BudgetPolicy about the Budget that policy manufactured
ProbeFreshBudget ==
    /\ probe = {}
    /\ \E q \in probe_in :
          LET b == create_budget(q.policy) IN
          probe' = {[policy |-> q.policy, budget |-> b,
                     exceeded |-> is_budget_exceeded(q.policy, b),
                     remaining |-> get_remaining_budget(q.policy, b)]}
    /\ UNCHANGED <<regVars, probe_in, orchVars, clientVars>>

PolInit ==
    /\ probe_in \in {{q} : q \in [policy : BudgetPolicies, budget : Budgets]}
    /\ probe = {}

PolIdle ==
    /\ probe_in = {}
    /\ probe = {}

(***************************************************************************)
(* Graph and ExecutionContext (graph.py)                                   *)
(***************************************************************************)
StageOrder ==
    <<"detect", "triage", "investigate", "plan", "approve", "execute",
      "verify", "report">>
StageNames == {StageOrder[i] : i \in 1..Len(StageOrder)}

StageIndex(n) == CHOOSE i \in 1..Len(StageOrder) : StageOrder[i] = n

EmptyMap == [k \in {} |-> Null]

\* Node(name=..., handler=..., description=...): status pending
Node(name) == [name |-> name, status |-> "pending", error |-> Null,
               result |-> {}]

\* StateTransition(from_node, to_node, condition)
StateTransition(from_node, to_node, condition) ==
    [from_node |-> from_node, to_node |-> to_node, condition |-> condition]

\* variant: the edge out of "approve" goes to "verify"
build_graph_skipping_execute ==
    [nodes |-> [n \in StageNames |-> Node(n)],
     transitions |->
        [i \in 1..(Len(StageOrder) - 1) |->
            StateTransition(StageOrder[i],
                            IF StageOrder[i] = "approve" THEN "verify"
                            ELSE StageOrder[i + 1], Null)],
     edges |->
        [n \in StageNames \ {"report"} |->
            <<IF n = "approve" THEN "verify"
              ELSE StageOrder[StageIndex(n) + 1]>>]]

\* Orchestrator._build_graph: eight nodes, seven unguarded edges
build_graph ==
    [nodes |-> [n \in StageNames |-> Node(n)],
     transitions |->
        [i \in 1..(Len(StageOrder) - 1) |->
            StateTransition(StageOrder[i], StageOrder[i + 1], Null)],
     edges |->
        [n \in StageNames \ {"report"} |-> <<StageOrder[StageIndex(n) + 1]>>]]

\* Graph.add_node: raises when the name is taken, else registers a pending
\* node
add_node(nds, name) ==
    IF name \in DOMAIN nds
    THEN [raised |-> TRUE, nodes |-> nds]
    ELSE [raised |-> FALSE, nodes |-> (name :> Node(name)) @@ nds]

\* variant: only the source endpoint is looked up
add_edge_source_only(g, from_node, to_node, condition) ==
    IF from_node \notin DOMAIN g.nodes
    THEN [raised |-> TRUE, transitions |-> g.transitions, edges |-> g.edges]
    ELSE [raised |-> FALSE,
          transitions |-> Append(g.transitions,
                                 StateTransition(from_node, to_node, condition)),
          edges |-> (from_node :>
                        Append(IF from_node \in DOMAIN g.edges
                               THEN g.edges[from_node] ELSE <<>>, to_node))
                    @@ g.edges]

\* Graph.add_edge on the graph g = [nodes, transitions, edges]: raises
\* before touching anything when an endpoint is not a node, else appends to
\* the source's edge list and to the transitions
add_edge(g, from_node, to_node, condition) ==
    IF from_node \notin DOMAIN g.nodes \/ to_node \notin DOMAIN g.nodes
    THEN [raised |-> TRUE, transitions |-> g.transitions, edges |-> g.edges]
    ELSE [raised |-> FALSE,
          transitions |-> Append(g.transitions,
                                 StateTransition(from_node, to_node, condition)),
          edges |-> (from_node :>
                        Append(IF from_node \in DOMAIN g.edges
                               THEN g.edges[from_node] ELSE <<>>, to_node))
                    @@ g.edges]

\* ExecutionContext(task_id=..., state=...)
ExecutionContext(state) ==
    [state |-> state, current_node |-> Null, node_results |-> EmptyMap,
     execution_path |-> <<>>]

\* ExecutionContext.get_node_result: the stored result as a set, {} for None
get_node_result(ctx, node_name) ==
    IF node_name \in DOMAIN ctx.node_results
    THEN {ctx.node_results[node_name]}
    ELSE {}

set_node_result(ctx, node_name, result) ==
    [ctx EXCEPT !.node_results = (node_name :> result) @@ @]

\* variant: a name already on the path is not appended again
add_to_path_once(ctx, node_name) ==
    IF \E i \in 1..Len(ctx.execution_path) : ctx.execution_path[i] = node_name
    THEN ctx
    ELSE [ctx EXCEPT !.execution_path = Append(@, node_name)]

add_to_path(ctx, node_name) ==
    [ctx EXCEPT !.execution_path = Append(@, node_name)]

\* the guards a transition carries: none (Null), or one of the two
\* conditions of the conditional-edge demo, which read the score the
\* context state holds (0 when it holds none)
Conditions == {Null, "score >= 5", "score < 5"}

\* transition.condition is None or transition.condition(context)
condition_holds(condition, ctx) ==
    LET score == IF "score" \in DOMAIN ctx.state THEN ctx.state["score"] ELSE 0
    IN \/ condition = Null
       \/ condition = "score >= 5" /\ score >= 5
       \/ condition = "score < 5" /\ score < 5

RECURSIVE next_nodes_from(_, _, _, _)
next_nodes_from(trs, i, current, ctx) ==
    IF i > Len(trs) THEN <<>>
    ELSE IF /\ trs[i].from_node = current
            /\ condition_holds(trs[i].condition, ctx)
         THEN <<trs[i].to_node>> \o next_nodes_from(trs, i + 1, current, ctx)
         ELSE next_nodes_from(trs, i + 1, current, ctx)

\* variant: a successor the walk has already executed is not offered again
get_next_nodes_unvisited(trs, current, ctx) ==
    SelectSeq(next_nodes_from(trs, 1, current, ctx),
              LAMBDA n : \A i \in 1..Len(ctx.execution_path) :
                            ctx.execution_path[i] # n)

\* variant: the guards are not evaluated
get_next_nodes_ignoring_guards(trs, current, ctx) ==
    next_nodes_from([i \in 1..Len(trs) |-> [trs[i] EXCEPT !.condition = Null]],
                    1, current, ctx)

\* Graph.get_next_nodes
get_next_nodes(trs, current, ctx) == next_nodes_from(trs, 1, current, ctx)

\* variant: the lookup failure is noted on the context
node_not_found_marking_context(nds, ctx, node_name) ==
    [nodes |-> nds, context |-> [ctx EXCEPT !.current_node = node_name],
     success |-> FALSE, result |-> {}, error |-> "not found",
     invoked |-> FALSE, raised |-> FALSE]

\* Graph.execute_node when the name is no node: (False, None, "Node '..' not
\* found") is returned at once
node_not_found(nds, ctx, node_name) ==
    [nodes |-> nds, context |-> ctx,
     success |-> FALSE, result |-> {}, error |-> "not found",
     invoked |-> FALSE, raised |-> FALSE]

\* variant: the handler's exception escapes execute_node
handler_failed_propagating(nds, running, node_name, h) ==
    [nodes |-> [nds EXCEPT ![node_name].status = "running"],
     context |-> running,
     success |-> FALSE, result |-> {}, error |-> h.error,
     invoked |-> TRUE, raised |-> TRUE]

\* Graph.execute_node's except branch: the node is marked failed with the
\* error and (False, None, error) is returned
handler_failed(nds, running, node_name, h) ==
    [nodes |-> [nds EXCEPT ![node_name].status = "failed",
                           ![node_name].error = h.error],
     context |-> running,
     success |-> FALSE, result |-> {}, error |-> h.error,
     invoked |-> TRUE, raised |-> FALSE]

\* variant: the result is stored on the node but not in the context
handler_succeeded_result_on_node_only(nds, running, node_name, h) ==
    [nodes |-> [nds EXCEPT ![node_name].status = "success",
                           ![node_name].result = {h.result}],
     context |-> add_to_path(running, node_name),
     success |-> TRUE, result |-> {h.result}, error |-> Null,
     invoked |-> TRUE, raised |-> FALSE]

\* Graph.execute_node after the handler returned: the node is marked
\* successful, its result is stored on the node and in the context, and its
\* name is appended to the execution path
handler_succeeded(nds, running, node_name, h) ==
    [nodes |-> [nds EXCEPT ![node_name].status = "success",
                           ![node_name].result = {h.result}],
     context |-> add_to_path(set_node_result(running, node_name, h.result),
                             node_name),
     success |-> TRUE, result |-> {h.result}, error |-> Null,
     invoked |-> TRUE, raised |-> FALSE]

\* Graph.execute_node, given what the node's handler did: h.raised, and
\* h.result / h.error / h.state (the context state the handler left behind)
execute_node(nds, ctx, node_name, h) ==
    IF node_name \notin DOMAIN nds
    THEN node_not_found(nds, ctx, node_name)
    ELSE LET running == [ctx EXCEPT !.current_node = node_name,
                                    !.state = h.state]
         IN IF h.raised
            THEN handler_failed(nds, running, node_name, h)
            ELSE handler_succeeded(nds, running, node_name, h)

(***************************************************************************)
(* ApprovalPolicy (policies.py)                                            *)
(***************************************************************************)
\* some action of the plan has this risk level
HasRisk(plan, risk) ==
    \E i \in 1..Len(plan.actions) : plan.actions[i].risk_level = risk

\* the loop of requires_approval over plan.actions, from the i-th action on:
\* the first action whose risk level the policy does not wave through
\* answers True
RECURSIVE actions_require_approval(_, _, _)
actions_require_approval(policy, actions, i) ==
    IF i > Len(actions) THEN FALSE
    ELSE LET risk == actions[i].risk_level
         IN IF risk = "risky_write" /\ policy.require_approval_for_risky
            THEN TRUE
            ELSE IF risk = "safe_write" /\ ~policy.auto_approve_safe_write
            THEN TRUE
            ELSE IF risk = "read_only" /\ ~policy.auto_approve_read_only
            THEN TRUE
            ELSE actions_require_approval(policy, actions, i + 1)

\* variant: read-only actions are never a reason for approval
requires_approval_ignoring_read_only(policy, plan) ==
    \/ plan.approval_required
    \/ HasRisk(plan, "risky_write") /\ policy.require_approval_for_risky
    \/ HasRisk(plan, "safe_write") /\ ~policy.auto_approve_safe_write

\* ApprovalPolicy.requires_approval
requires_approval(policy, plan) ==
    IF plan.approval_required
    THEN TRUE
    ELSE actions_require_approval(policy, plan.actions, 1)

risky_actions(plan) ==
    {i \in 1..Len(plan.actions) : plan.actions[i].risk_level = "risky_write"}

\* variant: a plan with risky actions under review is declined
approve_plan_declining_risky(policy, plan) ==
    IF ~requires_approval(policy, plan)
    THEN [approved |-> TRUE,
          reason |-> [text |-> "Auto-approved by policy", risky |-> 0]]
    ELSE IF risky_actions(plan) # {} /\ policy.require_approval_for_risky
    THEN [approved |-> FALSE,
          reason |-> [text |-> "Risky actions require review",
                      risky |-> Cardinality(risky_actions(plan))]]
    ELSE [approved |-> TRUE,
          reason |-> [text |-> "Approved by policy", risky |-> 0]]

\* ApprovalPolicy.approve_plan: (approved, reason); the reason's text and
\* the risky-action count it quotes
approve_plan(policy, plan) ==
    IF ~requires_approval(policy, plan)
    THEN [approved |-> TRUE,
          reason |-> [text |-> "Auto-approved by policy", risky |-> 0]]
    ELSE IF risky_actions(plan) # {} /\ policy.require_approval_for_risky
    THEN [approved |-> TRUE,
          reason |-> [text |-> "Auto-approved (M1 mode) - risky actions require review in M2",
                      risky |-> Cardinality(risky_actions(plan))]]
    ELSE [approved |-> TRUE,
          reason |-> [text |-> "Approved by policy", risky |-> 0]]

\* the approval_policy object handed to Orchestrator.__init__: the shipped
\* ApprovalPolicy ("m1"), or a gating policy ("gated") whose approve_plan
\* declines every plan that requires approval
policy_approve_plan(policy, plan) ==
    IF policy.gate = "gated" /\ requires_approval(policy, plan)
    THEN [approved |-> FALSE,
          reason |-> [text |-> "Approval required", risky |-> 0]]
    ELSE approve_plan(policy, plan)

(***************************************************************************)
(* Agents                                                                  *)
(***************************************************************************)
\* Action as PlannerAgent._parse_plan builds it
Action(tool_name, risk_level) ==
    [tool_name |-> tool_name, risk_level |-> risk_level,
     requires_approval |-> (risk_level # "read_only"),
     dry_run |-> TRUE, executed |-> FALSE, result |-> Null, error |-> Null]

ToolOfRisk(risk) ==
    CASE risk = "read_only" -> "query_metrics"
      [] risk = "safe_write" -> "update_config"
      [] risk = "risky_write" -> "restart_service"

\* Plan as PlannerAgent._parse_plan builds it from the model's answer
Plan(approval_required, risks) ==
    [approval_required |-> approval_required,
     actions |-> [i \in 1..Len(risks) |-> Action(ToolOfRisk(risks[i]), risks[i])]]

\* the plans the planner is taken to produce
PlanChoices ==
    {Plan(FALSE, <<>>), Plan(FALSE, <<"read_only">>),
     Plan(TRUE, <<"read_only">>), Plan(FALSE, <<"safe_write", "risky_write">>)}

\* ExecutorAgent.run: every action is marked, none goes to the registry
executor_run(plan, dry_run) ==
    LET marked == [i \in 1..Len(plan.actions) |->
                     [plan.actions[i] EXCEPT
                        !.dry_run = TRUE,
                        !.executed = TRUE,
                        !.result = IF dry_run THEN "simulated_success"
                                   ELSE "not_supported",
                        !.error = IF dry_run THEN @ ELSE "Not implemented in M1"]]
    IN [plan |-> [plan EXCEPT !.actions = marked],
        output |-> [executed_actions |-> marked,
                    success_count |-> IF dry_run THEN Len(marked) ELSE 0,
                    failure_count |-> IF dry_run THEN 0 ELSE Len(marked)]]

\* the tool calls the investigation agent is taken to be told to make
InvCallChoices ==
    {[tool_name |-> "query_metrics",
      args |-> ("service" :> "api") @@ ("metric" :> "cpu_percent"),
      handler_raises |-> FALSE],
     [tool_name |-> "query_metrics",
      args |-> ("service" :> "api") @@ ("metric" :> "cpu_percent"),
      handler_raises |-> TRUE],
     [tool_name |-> "restart_service", args |-> "service" :> "api",
      handler_raises |-> FALSE]}

RECURSIVE SeqsUpTo(_, _)
SeqsUpTo(S, n) ==
    IF n = 0 THEN {<<>>}
    ELSE LET shorter == SeqsUpTo(S, n - 1)
         IN shorter \cup {Append(q, x) : q \in shorter, x \in S}

\* the registry after the agent's calls, made one after the other with the
\* run's caller permission and dry_run left at its default (False)
RECURSIVE react_calls(_, _, _)
react_calls(reg, calls, caller) ==
    IF calls = <<>> THEN reg
    ELSE LET c == Head(calls)
             out == call(reg.tools, reg.audit_log, c.tool_name, c.args, caller,
                         FALSE, c.handler_raises)
         IN react_calls(
              [tools |-> reg.tools,
               audit_log |-> out.audit_log,
               handler_calls |-> IF out.invoked
                                 THEN [reg.handler_calls EXCEPT ![c.tool_name] = @ + 1]
                                 ELSE reg.handler_calls,
               call_count |-> reg.call_count + 1,
               last_call |-> {[tool_name |-> c.tool_name, args |-> c.args,
                               caller_permission |-> caller, dry_run |-> FALSE,
                               handler_raised |->
                                   out.invoked /\ c.handler_raises,
                               raised |-> out.raised,
                               handlers_before |-> reg.handler_calls,
                               audit_before |-> reg.audit_log]},
               last_result |-> IF out.raised THEN {} ELSE {out.result},
               evidence |-> Append(reg.evidence,
                                   [source |-> c.tool_name, data |-> out.result])],
              Tail(calls), caller)

(***************************************************************************)
(* Verifier (verifier.py)                                                  *)
(***************************************************************************)
\* Verifier.DEFAULT_RULES: metric -> VerificationRule
DEFAULT_RULES ==
    [m \in {"cpu_percent", "memory_percent", "request_latency_p99"} |->
        [metric |-> m,
         threshold |-> CASE m = "cpu_percent" -> 80
                         [] m = "memory_percent" -> 85
                         [] OTHER -> 200,
         operator |-> "lt"]]

NonString == "<non-string>"

\* the keywords ("cpu", "latency", "memory") a text contains, lower-cased
KeywordsIn(text) ==
    CASE text \in {"cpu_percent", "High CPU Usage"} -> {"cpu"}
      [] text \in {"request_latency_p99", "High API Latency"} -> {"latency"}
      [] text = "memory_percent" -> {"memory"}
      [] OTHER -> {}

\* Verifier._determine_metrics_to_check (alert_name is known to be a string)
determine_metrics_to_check(sym) ==
    LET kw == KeywordsIn(sym.alert_name) \cup KeywordsIn(sym.metric)
    IN (IF sym.metric \in DOMAIN DEFAULT_RULES THEN {sym.metric} ELSE {})
       \cup (IF "cpu" \in kw THEN {"cpu_percent"} ELSE {})
       \cup (IF "latency" \in kw THEN {"request_latency_p99"} ELSE {})
       \cup (IF "memory" \in kw THEN {"memory_percent"} ELSE {})

\* Verifier._evaluate_threshold on whole numbers ("eq" allows a difference
\* below 0.01, which for whole numbers is equality)
evaluate_threshold(value, threshold, operator) ==
    CASE operator = "lt" -> value < threshold
      [] operator = "gt" -> value > threshold
      [] operator = "eq" -> value = threshold
      [] operator = "le" -> value <= threshold
      [] operator = "ge" -> value >= threshold
      [] OTHER -> FALSE

\* what the monitored service's tools have to say: the average query_metrics
\* would compute and the number of entries query_logs would return
Backends == [avg : {50, 80, 95}, total_entries : {4, 5, 6}]

\* the verifier's query, self.tool_registry.call(tool_name, {...}): it is
\* written without the caller_permission argument that ToolRegistry.call
\* requires, so the call raises before the registry looks at the tool, and
\* what the tool has to say (data) is never read
registry_query(tool_name, data) == [kind |-> "raises", value |-> 0]

\* variant: a check whose query failed is reported as passed
check_metric_lenient(metric_name, reply) ==
    LET rule == DEFAULT_RULES[metric_name]
    IN IF reply.kind = "data"
       THEN [type |-> "metric", metric |-> metric_name,
             passed |-> evaluate_threshold(reply.value, rule.threshold,
                                           rule.operator),
             value |-> {reply.value}]
       ELSE [type |-> "metric", metric |-> metric_name, passed |-> TRUE,
             value |-> {}]

\* Verifier._check_metric for a metric that has a rule, given what the query
\* did: raised (the except branch), returned a mapping with an "error" key,
\* or returned data whose aggregation average is reply.value
check_metric(metric_name, reply) ==
    LET rule == DEFAULT_RULES[metric_name]
    IN IF reply.kind = "data"
       THEN [type |-> "metric", metric |-> metric_name,
             passed |-> evaluate_threshold(reply.value, rule.threshold,
                                           rule.operator),
             value |-> {reply.value}]
       ELSE [type |-> "metric", metric |-> metric_name, passed |-> FALSE,
             value |-> {}]

\* Verifier._check_error_logs, given what the query did
check_error_logs(reply) ==
    IF reply.kind = "data"
    THEN [type |-> "logs", metric |-> Null, passed |-> reply.value < 5,
          value |-> {reply.value}]
    ELSE [type |-> "logs", metric |-> Null, passed |-> FALSE, value |-> {}]

\* variant: failing half of the checks already counts as degraded
verification_outcome_half_is_degraded(checks) ==
    LET failed == {c \in checks : ~c.passed}
    IN IF failed = {}
       THEN [verified |-> TRUE, status |-> "improved", checks |-> checks]
       ELSE [verified |-> FALSE,
             status |-> IF 2 * Cardinality(failed) >= Cardinality(checks)
                        THEN "degraded" ELSE "unchanged",
             checks |-> checks]

\* the end of Verifier.verify: the VerificationResult for the checks made
verification_outcome(checks) ==
    LET failed == {c \in checks : ~c.passed}
    IN IF failed = {}
       THEN [verified |-> TRUE, status |-> "improved", checks |-> checks]
       ELSE [verified |-> FALSE,
             status |-> IF 2 * Cardinality(failed) > Cardinality(checks)
                        THEN "degraded" ELSE "unchanged",
             checks |-> checks]

\* Verifier.verify: raised, or the VerificationResult; calls is the number
\* of times it invoked tool_registry.call on the way
verify(real, sym, backend) ==
    IF ~real
    THEN [raised |-> FALSE, calls |-> 0,
          result |-> [verified |-> TRUE, status |-> "improved",
                      checks |-> {[type |-> "mock", metric |-> Null,
                                   passed |-> TRUE, value |-> {}]}]]
    ELSE IF sym.service = ""
    THEN [raised |-> FALSE, calls |-> 0,
          result |-> [verified |-> FALSE, status |-> "unknown", checks |-> {}]]
    ELSE IF sym.alert_name = NonString
    THEN [raised |-> TRUE, calls |-> 0,
          result |-> [verified |-> FALSE, status |-> Null, checks |-> {}]]
    ELSE LET checks ==
                 {check_metric(m, registry_query("query_metrics", backend.avg)) :
                      m \in determine_metrics_to_check(sym)}
                 \cup {check_error_logs(
                           registry_query("query_logs", backend.total_entries))}
         IN [raised |-> FALSE, calls |-> Cardinality(checks),
             result |-> verification_outcome(checks)]

(***************************************************************************)
(* TraceRecorder (observability/tracer.py)                                 *)
(***************************************************************************)
\* TraceSpan(span_id=..., component=..., name=...): a span just started
TraceSpan(span_id, component, name) ==
    [span_id |-> span_id, component |-> component, name |-> name,
     status |-> "running", error |-> Null, ended |-> FALSE]

\* TraceEvent(span_id=..., component=..., event_type=...)
TraceEvent(event_id, span_id, component, event_type) ==
    [event_id |-> event_id, span_id |-> span_id, component |-> component,
     event_type |-> event_type]

\* TraceRecorder(output_dir): nothing recorded, an empty trace file; ids is
\* the number of ids drawn so far (uuid4 gives a fresh one each time)
TraceRecorder ==
    [spans |-> EmptyMap, events |-> <<>>,
     metrics |-> [total_spans |-> 0, total_events |-> 0,
                  spans_by_component |-> EmptyMap,
                  spans_by_status |-> EmptyMap],
     trace_file |-> <<>>, ids |-> 0]

\* dict.get(key, 0) + 1 stored back under key
counted(m, key) ==
    (key :> ((IF key \in DOMAIN m THEN m[key] ELSE 0) + 1)) @@ m

\* variant: a failed write is not caught
write_record_propagating(tr, record, ok) ==
    [tracer |-> IF ok THEN [tr EXCEPT !.trace_file = Append(@, record)] ELSE tr,
     raised |-> ~ok]

\* TraceRecorder._write_record: the record is appended to the trace file; a
\* failure to write is caught and answered with a printed warning
write_record(tr, record, ok) ==
    [tracer |-> IF ok THEN [tr EXCEPT !.trace_file = Append(@, record)] ELSE tr,
     raised |-> FALSE]

\* TraceRecorder.start_span: yields the tracer afterwards, whether the call
\* raised, and the span id returned
start_span(tr, component, name, ok) ==
    LET span_id == tr.ids + 1
        span == TraceSpan(span_id, component, name)
        stored == [tr EXCEPT
                     !.ids = span_id,
                     !.spans = (span_id :> span) @@ @,
                     !.metrics.total_spans = @ + 1,
                     !.metrics.spans_by_component = counted(@, component)]
        written == write_record(stored, [type |-> "span_start", span |-> span],
                                ok)
    IN [tracer |-> written.tracer, raised |-> written.raised,
        value |-> IF written.raised THEN {} ELSE {span_id}]

\* TraceRecorder.record_event: yields the event id returned
record_event(tr, component, event_type, span_id, ok) ==
    LET event_id == tr.ids + 1
        event == TraceEvent(event_id, span_id, component, event_type)
        stored == [tr EXCEPT
                     !.ids = event_id,
                     !.events = Append(@, event),
                     !.metrics.total_events = @ + 1]
        written == write_record(stored, [type |-> "event", event |-> event], ok)
    IN [tracer |-> written.tracer, raised |-> written.raised,
        value |-> IF written.raised THEN {} ELSE {event_id}]

\* TraceRecorder.end_span: an unknown span id is answered with a warning
\* event and a plain return; a known span is closed with the status
end_span(tr, span_id, status, error, ok) ==
    IF span_id \notin DOMAIN tr.spans
    THEN LET warned == record_event(tr, "tracer", "warning", {}, ok)
         IN [tracer |-> warned.tracer, raised |-> warned.raised, value |-> {}]
    ELSE LET span == [tr.spans[span_id] EXCEPT
                         !.ended = TRUE, !.status = status, !.error = error]
             stored == [tr EXCEPT
                          !.spans[span_id] = span,
                          !.metrics.spans_by_status = counted(@, status)]
             written == write_record(stored,
                                     [type |-> "span_end", span |-> span], ok)
         IN [tracer |-> written.tracer, raised |-> written.raised,
             value |-> {}]

\* a client's call on the tracer, and what it leaves behind
TraceCall(op, args, out) ==
    /\ pc = "idle"
    /\ trace_ops < MaxTraceOps
    /\ tracer' = out.tracer
    /\ trace_op' = {[op |-> op, args |-> args, raised |-> out.raised,
                     value |-> out.value, before |-> tracer,
                     sink_ok |-> sink_ok]}
    /\ trace_ops' = trace_ops + 1
    /\ UNCHANGED <<regVars, polVars, cfgVars, graphVars, runVars, clientVars,
                   sink_ok>>

StartSpan ==
    \E name \in {"workflow", "detect"} :
        TraceCall("start_span", [name |-> name],
                  start_span(tracer, "agent", name, sink_ok))

\* end_span on a span started before, or on an id the tracer never gave out
EndSpan ==
    \E span_id \in 0..MaxTraceOps, status \in {"success", "failed"} :
        TraceCall("end_span", [span_id |-> span_id, status |-> status],
                  end_span(tracer, span_id, status,
                           IF status = "failed" THEN "error" ELSE Null,
                           sink_ok))

RecordEvent ==
    \E span_id \in {{}, {1}} :
        TraceCall("record_event", [span_id |-> span_id],
                  record_event(tracer, "orchestrator", "info", span_id,
                               sink_ok))

\* the trace file stops or starts being writable (disk full, directory gone)
SinkChanges ==
    /\ pc = "idle"
    /\ trace_ops < MaxTraceOps
    /\ sink_ok' = ~sink_ok
    /\ UNCHANGED <<regVars, polVars, cfgVars, graphVars, runVars, clientVars,
                   tracer, trace_op, trace_ops>>

(***************************************************************************)
(* Orchestrator (orchestrator.py)                                          *)
(***************************************************************************)
NoStep == [success |-> FALSE, result |-> {}, error |-> Null, duration |-> 0]
NoError == [kind |-> Null, node |-> Null, error |-> Null]

\* dict.get on the context's state: the value as a set, {} when absent
state_get(ctx, key) ==
    IF key \in DOMAIN ctx.state THEN {ctx.state[key]} ELSE {}

state_put(state, key, value) == (key :> value) @@ state

\* what a handler reports to execute_node
Returned(result, state) ==
    [raised |-> FALSE, result |-> result, error |-> Null, state |-> state]
Raised(error, state) ==
    [raised |-> TRUE, result |-> Null, error |-> error, state |-> state]

\* the error run leaves with when a call on the tracer raised
TraceError == [kind |-> "Trace failed", node |-> Null, error |-> Null]

\* workflow_span_id: the id start_span returned to run
workflow_span_id(tr) ==
    CHOOSE id \in DOMAIN tr.spans : tr.spans[id].name = "workflow"

\* run's except clause: the workflow span is closed as failed and the error
\* is raised again
RunRaises(error) ==
    LET ended == end_span(tracer, workflow_span_id(tracer), "failed",
                          error.kind, sink_ok)
    IN /\ tracer' = ended.tracer
       /\ pc' = "raised"
       /\ run_error' = IF ended.raised THEN TraceError ELSE error

\* run's last lines: the workflow span is closed as successful and the
\* report returned
RunReturns(report) ==
    LET ended == end_span(tracer, workflow_span_id(tracer), "success", Null,
                          sink_ok)
        again == end_span(ended.tracer, workflow_span_id(tracer), "failed",
                          "Trace failed", sink_ok)
    IN IF ended.raised
       THEN /\ tracer' = again.tracer
            /\ pc' = "raised"
            /\ run_error' = TraceError
            /\ UNCHANGED run_result
       ELSE /\ tracer' = ended.tracer
            /\ pc' = "returned"
            /\ run_result' = report
            /\ UNCHANGED run_error

\* Orchestrator.run, up to the loop: the workflow span is started, the
\* context is created, the walk starts at "detect"
StartRun ==
    /\ pc = "init"
    /\ LET started == start_span(tracer, "orchestrator", "workflow", sink_ok)
       IN /\ tracer' = started.tracer
          /\ IF started.raised
             THEN /\ pc' = "raised"
                  /\ run_error' = TraceError
                  /\ UNCHANGED <<context, current_node>>
             ELSE /\ context' = ExecutionContext(
                        ("task" :> "task") @@ ("permission" :> caller_permission))
                  /\ current_node' = "detect"
                  /\ pc' = "check"
                  /\ UNCHANGED run_error
    /\ UNCHANGED <<regVars, polVars, cfgVars, clientVars, sink_ok, trace_op,
                   trace_ops, nodes, transitions, edges,
                   task_status, llm_tokens,
                   budget, step, run_result, handlers_started,
                   executor_runs, run_calls, verifier_raised>>

\* variant: the loop looks at the token counter only
budget_check_tokens_only(b) == b.tokens_used >= b.max_tokens

\* the condition the loop tests before each stage: the task's own budget
budget_check(b) == is_exceeded(b)

\* variant: the orchestrator's policy caps the ceilings the loop enforces
enforced_budget_policy_ceilings(task_budget, policy) ==
    [task_budget EXCEPT
        !.max_tokens = IF policy.max_tokens < @ THEN policy.max_tokens ELSE @,
        !.max_time_seconds =
            IF policy.max_time_seconds < @ THEN policy.max_time_seconds ELSE @,
        !.max_tool_calls =
            IF policy.max_tool_calls < @ THEN policy.max_tool_calls ELSE @]

\* the budget the loop asks is_exceeded of: task.budget; the orchestrator's
\* budget_policy, stored by __init__, is not consulted
enforced_budget(task_budget, policy) == task_budget

\* the loop's budget check before each stage
CheckBudget ==
    /\ pc = "check"
    /\ IF budget_check(enforced_budget(budget, budget_policy))
       THEN RunRaises([kind |-> "Budget exceeded", node |-> current_node,
                       error |-> Null])
       ELSE /\ pc' = "execute"
            /\ UNCHANGED <<run_error, tracer>>
    /\ UNCHANGED <<regVars, polVars, cfgVars, clientVars, sink_ok, trace_op, trace_ops,
                   graphVars, task_status, llm_tokens, budget,
                   current_node, step, run_result, handlers_started,
                   executor_runs, run_calls, verifier_raised>>

\* node_duration, the wall-clock time the loop measures around a stage, in
\* whole seconds: none at all or the longest
StageDurations == {0, MaxDur}

\* the loop is about to execute this node
AtNode(node_name) == pc = "execute" /\ current_node = node_name

\* the component a stage handler files its span under
span_component(node_name) ==
    CASE node_name \in {"detect", "verify", "report"} -> "orchestrator"
      [] node_name = "approve" -> "policy"
      [] OTHER -> "agent"

\* the status a stage handler closes its span with
span_status(node_name, h) ==
    IF h.raised THEN "failed"
    ELSE IF node_name = "verify" /\ h.result.status = "error" THEN "failed"
    ELSE IF node_name = "execute" /\ "status" \in DOMAIN h.result
            /\ h.result.status = "skipped" THEN "skipped"
    ELSE "success"

\* a stage handler with its span: start_span on entry, end_span on each way
\* out; a tracer call that raises makes the handler raise
traced(tr, node_name, h, ok) ==
    LET started == start_span(tr, span_component(node_name), node_name, ok)
        span_id == CHOOSE id \in started.value : TRUE
        ended == end_span(started.tracer, span_id, span_status(node_name, h),
                          h.error, ok)
    IN IF started.raised
       THEN [tracer |-> started.tracer, h |-> Raised("trace error", h.state)]
       ELSE [tracer |-> ended.tracer,
             h |-> IF ended.raised THEN Raised("trace error", h.state) ELSE h]

\* graph.execute_node(current_node, context) around the stage's handler,
\* timed by the loop (node_duration)
RunNode(node_name, handler, node_duration) ==
    LET t == traced(tracer, node_name, handler, sink_ok)
        h == t.h
        out == execute_node(nodes, context, node_name, h) IN
    /\ tracer' = t.tracer
    /\ nodes' = out.nodes
    /\ context' = out.context
    /\ step' = [success |-> out.success, result |-> out.result,
                error |-> out.error, duration |-> node_duration]
    /\ handlers_started' = Append(handlers_started, node_name)
    /\ pc' = "record"
    /\ UNCHANGED <<polVars, cfgVars, clientVars, sink_ok, trace_op, trace_ops,
                   transitions, edges,
                   current_node, run_result, run_error>>

\* _node_detect
NodeDetect ==
    /\ AtNode("detect")
    /\ \E d \in StageDurations :
          RunNode("detect", Returned([task |-> "task"], context.state), d)
    /\ UNCHANGED <<regVars, task_status, llm_tokens, budget, executor_runs, run_calls, verifier_raised>>

\* a node of a client's graph whose handler returns at once, leaving the
\* context's state alone; the loop is followed for MaxLoop executions
CycleNode ==
    /\ pc = "execute"
    /\ Len(handlers_started) < MaxLoop
    /\ \E d \in StageDurations :
          RunNode(current_node,
                  Returned([node |-> current_node, status |-> "success"],
                           context.state), d)
    /\ UNCHANGED <<regVars, task_status, llm_tokens, budget, executor_runs, run_calls, verifier_raised>>

\* _node_triage: the triage agent asks the model; a transport failure raises
NodeTriage ==
    /\ AtNode("triage")
    /\ \E d \in StageDurations, llm_fails \in BOOLEAN :
          IF llm_fails
          THEN /\ RunNode("triage", Raised("llm error", context.state), d)
               /\ UNCHANGED <<task_status, llm_tokens>>
          ELSE /\ RunNode("triage",
                          Returned([severity |-> "medium",
                                    category |-> "performance"],
                                   context.state), d)
               /\ task_status' = "triaged"
               /\ \E t \in llm_token_counts : llm_tokens' = llm_tokens + t
    /\ UNCHANGED <<regVars, budget, executor_runs, run_calls, verifier_raised>>

\* _node_investigate: the agent's tool calls go through the registry; the
\* count of evidence items is added to the budget once the agent returns
\* variant: the stage's own count replaces the counter
charge_tool_calls_overwriting(b, tool_calls_made) ==
    [b EXCEPT !.tool_calls_used = tool_calls_made]

\* variant: the stage's count is added to the token counter
charge_tool_calls_as_tokens(b, tool_calls_made) ==
    [b EXCEPT !.tokens_used = @ + tool_calls_made]

\* _node_investigate: task.budget.tool_calls_used += tool_calls_made
charge_tool_calls(b, tool_calls_made) ==
    [b EXCEPT !.tool_calls_used = @ + tool_calls_made]

NodeInvestigate ==
    /\ AtNode("investigate")
    /\ \E d \in StageDurations, llm_fails \in BOOLEAN,
          calls \in SeqsUpTo(InvCallChoices, MaxInvCalls) :
          LET reg == react_calls(
                        [tools |-> tools, audit_log |-> audit_log,
                         handler_calls |-> handler_calls,
                         call_count |-> call_count, last_call |-> last_call,
                         last_result |-> last_result, evidence |-> <<>>],
                        calls, context.state["permission"])
              tool_calls_made == Len(reg.evidence)
          IN /\ audit_log' = reg.audit_log
             /\ handler_calls' = reg.handler_calls
             /\ call_count' = reg.call_count
             /\ last_call' = reg.last_call
             /\ last_result' = reg.last_result
             /\ run_calls' = [run_calls EXCEPT !["investigate"] = @ + Len(calls)]
             /\ IF llm_fails
                THEN /\ RunNode("investigate",
                                Raised("llm error", context.state), d)
                     /\ UNCHANGED <<budget, llm_tokens>>
                ELSE /\ RunNode("investigate",
                                Returned([evidence |-> reg.evidence,
                                          tool_calls_made |-> tool_calls_made],
                                         state_put(context.state, "evidence",
                                                   reg.evidence)), d)
                     /\ budget' = charge_tool_calls(budget, tool_calls_made)
                     /\ \E t \in llm_token_counts :
                           llm_tokens' = llm_tokens + t
    /\ UNCHANGED <<tools, tool_order, reg_op, log_seen, reg_ops, task_status,
                   executor_runs, verifier_raised>>

\* variant: the plan is returned but not put into the context state
node_plan_not_stored(ctx, llm_fails, plan) ==
    IF llm_fails
    THEN Raised("llm error", ctx.state)
    ELSE Returned([plan |-> plan], ctx.state)

\* _node_plan, given the planner's plan (or its failure): the plan is put
\* into the context state and returned
node_plan(ctx, llm_fails, plan) ==
    IF llm_fails
    THEN Raised("llm error", ctx.state)
    ELSE Returned([plan |-> plan], state_put(ctx.state, "plan", plan))

NodePlan ==
    /\ AtNode("plan")
    /\ \E d \in StageDurations, llm_fails \in BOOLEAN, plan \in PlanChoices :
          /\ RunNode("plan", node_plan(context, llm_fails, plan), d)
          /\ \E t \in llm_token_counts :
                llm_tokens' = IF llm_fails THEN llm_tokens ELSE llm_tokens + t
    /\ UNCHANGED <<regVars, task_status, budget, executor_runs, run_calls, verifier_raised>>

\* _node_approve
node_approve(ctx, policy) ==
    IF state_get(ctx, "plan") = {}
    THEN Raised("No plan to approve", ctx.state)
    ELSE LET verdict == policy_approve_plan(policy, ctx.state["plan"])
         IN Returned(verdict, state_put(ctx.state, "approval", verdict))

NodeApprove ==
    /\ AtNode("approve")
    /\ \E d \in StageDurations :
          RunNode("approve", node_approve(context, approval_policy), d)
    /\ UNCHANGED <<regVars, task_status, llm_tokens, budget, executor_runs, run_calls, verifier_raised>>

\* variant: the executor is run whatever the approval says
node_execute_unconditional(ctx) ==
    LET ex == executor_run(ctx.state["plan"], TRUE)
    IN [h |-> Returned(ex.output, state_put(ctx.state, "plan", ex.plan)),
        executor_runs |-> 1]

\* _node_execute: what the handler reports, and how many times it ran the
\* executor agent (always in dry-run)
node_execute(ctx) ==
    LET approved == \E a \in state_get(ctx, "approval") : a.approved
    IN IF ~approved
       THEN [h |-> Returned([status |-> "skipped",
                             reason |-> "Plan not approved"], ctx.state),
             executor_runs |-> 0]
       ELSE LET ex == executor_run(ctx.state["plan"], TRUE)
            IN [h |-> Returned(ex.output,
                               state_put(ctx.state, "plan", ex.plan)),
                executor_runs |-> 1]

\* variant: an approved plan's first action is sent through the registry as
\* a dry run
NodeExecuteThroughRegistry ==
    /\ AtNode("execute")
    /\ \E d \in StageDurations :
          LET ex == node_execute(context)
              plan == context.state["plan"]
          IN /\ RunNode("execute", ex.h, d)
             /\ executor_runs' = executor_runs + ex.executor_runs
             /\ IF ex.executor_runs = 1 /\ plan.actions # <<>>
                THEN CallWith(plan.actions[1].tool_name, "service" :> "api",
                              context.state["permission"], TRUE, FALSE)
                ELSE UNCHANGED callVars
    /\ UNCHANGED <<tools, tool_order, reg_op, log_seen, reg_ops, task_status,
                   llm_tokens, budget, run_calls, verifier_raised>>

NodeExecute ==
    /\ AtNode("execute")
    /\ \E d \in StageDurations :
          LET ex == node_execute(context)
          IN /\ RunNode("execute", ex.h, d)
             /\ executor_runs' = executor_runs + ex.executor_runs
    /\ UNCHANGED <<regVars, task_status, llm_tokens, budget, run_calls, verifier_raised>>

\* variant: the handler lets the verifier's error escape
node_verify_propagating(ctx, v) ==
    IF v.raised
    THEN Raised("verification error", ctx.state)
    ELSE Returned(v.result, state_put(ctx.state, "verification", v.result))

\* _node_verify, given what Verifier.verify did: a verifier error is turned
\* into an "error" result, which is stored and returned like any other
node_verify(ctx, v) ==
    LET verification == IF v.raised
                        THEN [verified |-> FALSE, status |-> "error",
                              checks |-> {}]
                        ELSE v.result
    IN Returned(verification,
                state_put(ctx.state, "verification", verification))

NodeVerify ==
    /\ AtNode("verify")
    /\ \E d \in StageDurations, backend \in Backends :
          LET v == verify(use_real_verification, symptoms, backend)
          IN /\ RunNode("verify", node_verify(context, v), d)
             /\ verifier_raised' = v.raised
             /\ run_calls' = [run_calls EXCEPT !["verify"] = @ + v.calls]
    /\ UNCHANGED <<regVars, task_status, llm_tokens, budget, executor_runs>>

\* variant: a run that is not verified is never a success
report_status_strict(verification_result, executor_result) ==
    IF \E v \in verification_result : v.verified
    THEN "success"
    ELSE "partial"

\* the status _node_report gives the Report
report_status(verification_result, executor_result) ==
    IF \E v \in verification_result : v.verified
    THEN "success"
    ELSE IF \E e \in executor_result :
               "failure_count" \in DOMAIN e /\ e.failure_count > 0
    THEN "partial"
    ELSE "success"

\* _node_report
NodeReport ==
    /\ AtNode("report")
    /\ \E d \in StageDurations :
          LET executor_result == get_node_result(context, "execute")
              verification_result == get_node_result(context, "verify")
              evidence == state_get(context, "evidence")
              plan == state_get(context, "plan")
              count(S, key) == IF \E e \in S : key \in DOMAIN e
                               THEN (CHOOSE e \in S : TRUE)[key] ELSE 0
              report ==
                [status |-> report_status(verification_result, executor_result),
                 plan |-> plan,
                 metrics |->
                   [tokens_used |-> budget.tokens_used,
                    time_used |-> budget.time_used,
                    tool_calls_used |-> budget.tool_calls_used,
                    evidence_count |-> IF evidence = {} THEN 0
                                       ELSE Len(CHOOSE e \in evidence : TRUE),
                    actions_planned |-> IF plan = {} THEN 0
                                        ELSE Len((CHOOSE q \in plan : TRUE).actions),
                    actions_executed |-> count(executor_result, "success_count")]]
          IN RunNode("report", Returned(report, context.state), d)
    /\ UNCHANGED <<regVars, task_status, llm_tokens, budget, executor_runs, run_calls, verifier_raised>>

\* the rest of the loop body: the stage's time is charged, a failed stage
\* aborts the run, otherwise the first eligible successor becomes current
\* variant: the loop does not look at the node's success flag
stage_failed_ignored(st) == FALSE

\* the loop's test of execute_node's success flag
stage_failed(st) == ~st.success

\* variant: a failed stage is tried again instead of ending the run
RecordAndRetryFailed ==
    /\ pc = "record"
    /\ budget' = record_time_usage(budget, step.duration)
    /\ IF stage_failed(step)
       THEN /\ pc' = "check"
            /\ UNCHANGED <<current_node, run_error>>
       ELSE LET next_nodes == get_next_nodes(transitions, current_node, context)
            IN /\ current_node' = IF next_nodes # <<>> THEN Head(next_nodes)
                                  ELSE Null
               /\ pc' = IF next_nodes # <<>> THEN "check" ELSE "finish"
               /\ UNCHANGED run_error
    /\ UNCHANGED <<regVars, polVars, cfgVars, clientVars, traceVars, graphVars, task_status, llm_tokens, step,
                   run_result, handlers_started, executor_runs, run_calls, verifier_raised>>

RecordAndAdvance ==
    /\ pc = "record"
    /\ budget' = record_time_usage(budget, step.duration)
    /\ IF stage_failed(step)
       THEN /\ RunRaises([kind |-> "Node failed", node |-> current_node,
                          error |-> step.error])
            /\ UNCHANGED current_node
       ELSE LET next_nodes == get_next_nodes(transitions, current_node, context)
            IN /\ current_node' = IF next_nodes # <<>> THEN Head(next_nodes)
                                  ELSE Null
               /\ pc' = IF next_nodes # <<>> THEN "check" ELSE "finish"
               /\ UNCHANGED <<run_error, tracer>>
    /\ UNCHANGED <<regVars, polVars, cfgVars, clientVars, sink_ok, trace_op, trace_ops,
                   graphVars, task_status, llm_tokens, step,
                   run_result, handlers_started, executor_runs, run_calls, verifier_raised>>

\* variant: the budget is checked once more after the loop
FinishCheckingBudget ==
    /\ pc = "finish"
    /\ LET report == get_node_result(context, "report")
       IN IF budget_check(budget)
          THEN /\ RunRaises([kind |-> "Budget exceeded", node |-> Null,
                             error |-> Null])
               /\ UNCHANGED run_result
          ELSE IF report = {}
          THEN /\ RunRaises([kind |-> "No report generated", node |-> Null,
                             error |-> Null])
               /\ UNCHANGED run_result
          ELSE RunReturns(report)
    /\ UNCHANGED <<regVars, polVars, cfgVars, clientVars, sink_ok, trace_op, trace_ops,
                   graphVars, task_status, llm_tokens, budget,
                   current_node, step, handlers_started, executor_runs,
                   run_calls, verifier_raised>>

\* after the loop: the report node's result is the run's result
Finish ==
    /\ pc = "finish"
    /\ LET report == get_node_result(context, "report")
       IN IF report = {}
          THEN /\ RunRaises([kind |-> "No report generated", node |-> Null,
                             error |-> Null])
               /\ UNCHANGED run_result
          ELSE RunReturns(report)
    /\ UNCHANGED <<regVars, polVars, cfgVars, clientVars, sink_ok, trace_op, trace_ops,
                   graphVars, task_status, llm_tokens, budget,
                   current_node, step, handlers_started, executor_runs,
                   run_calls, verifier_raised>>

ApprovalPolicies ==
    {[auto_approve_read_only |-> TRUE, auto_approve_safe_write |-> FALSE,
      require_approval_for_risky |-> TRUE, gate |-> g] : g \in {"m1", "gated"}}

SymptomChoices ==
    {[service |-> "", metric |-> "", alert_name |-> ""],
     [service |-> "auth-service", metric |-> "cpu_percent",
      alert_name |-> "High CPU Usage"],
     [service |-> "auth-service", metric |-> "cpu_percent",
      alert_name |-> NonString]}

\* the budgets a task arrives with: each ceiling as tight as can be or at
\* the largest value
TaskBudgets ==
    {b \in Budgets :
        /\ b.max_tokens = MaxCeil
        /\ b.tokens_used \in {0, MaxCeil}
        /\ b.max_time_seconds \in {1, MaxCeil}
        /\ b.time_used = 0
        /\ b.max_tool_calls \in {1, MaxCeil}
        /\ b.tool_calls_used \in {0, 1}}

\* BudgetPolicy(): the policy an Orchestrator built without one holds
DefaultBudgetPolicy ==
    [max_tokens |-> MaxCeil, max_time_seconds |-> MaxCeil,
     max_tool_calls |-> MaxCeil]

\* a constructed Orchestrator and a fresh context: the reference graph is
\* built, run has not been entered
OrchStart ==
    /\ nodes = build_graph.nodes
    /\ transitions = build_graph.transitions
    /\ edges = build_graph.edges
    /\ context = ExecutionContext(EmptyMap)
    /\ task_status = "pending"
    /\ pc = "init"
    /\ current_node = Null
    /\ step = NoStep
    /\ run_result = {}
    /\ run_error = NoError
    /\ handlers_started = <<>>
    /\ executor_runs = 0
    /\ run_calls = [n \in {"investigate", "execute", "verify"} |-> 0]
    /\ verifier_raised = FALSE
    /\ llm_tokens = 0
    /\ tracer = TraceRecorder
    /\ trace_op = {}
    /\ trace_ops = 0

OrchInit ==
    /\ caller_permission \in PermissionLevel
    /\ approval_policy \in ApprovalPolicies
    /\ use_real_verification \in BOOLEAN
    /\ symptoms \in SymptomChoices
    /\ budget \in TaskBudgets
    /\ initial_budget = budget
    /\ budget_policy = DefaultBudgetPolicy
    /\ llm_token_counts = {1}
    /\ sink_ok = TRUE
    /\ OrchStart

\* the budget policies an Orchestrator is built with: every ceiling the same,
\* from zero to the largest
OrchestratorBudgetPolicies ==
    {p \in BudgetPolicies :
        /\ p.max_tokens = p.max_time_seconds
        /\ p.max_time_seconds = p.max_tool_calls}

\* orchestrators that differ in their budget policy and in what the language
\* model reports, given the same kind of task and the shipped collaborators
InputsInit ==
    /\ caller_permission = "operator"
    /\ approval_policy \in {p \in ApprovalPolicies : p.gate = "m1"}
    /\ use_real_verification = FALSE
    /\ symptoms = [service |-> "", metric |-> "", alert_name |-> ""]
    /\ budget \in TaskBudgets
    /\ initial_budget = budget
    /\ budget_policy \in OrchestratorBudgetPolicies
    /\ llm_token_counts = 0..MaxTokens
    /\ sink_ok = TRUE
    /\ OrchStart

\* an orchestrator about to run over a trace file that can be written, or
\* over one that cannot
TracedInit ==
    /\ caller_permission = "operator"
    /\ approval_policy \in {p \in ApprovalPolicies : p.gate = "m1"}
    /\ use_real_verification = FALSE
    /\ symptoms = [service |-> "", metric |-> "", alert_name |-> ""]
    /\ budget \in TaskBudgets
    /\ initial_budget = budget
    /\ budget_policy = DefaultBudgetPolicy
    /\ llm_token_counts = {1}
    /\ sink_ok \in BOOLEAN
    /\ OrchStart

\* the edges that close a cycle on the reference chain: from its last node
\* back to an earlier node or to itself, unguarded or under a guard that
\* holds as long as no handler stores a score
BackEdges ==
    {[to_node |-> n, condition |-> c] :
        n \in {"detect", "plan", "report"}, c \in {Null, "score < 5"}}

\* a run about to start on a graph with a cycle: the reference chain plus
\* one back edge, added with add_edge
CycleInit ==
    /\ caller_permission = "operator"
    /\ approval_policy \in {p \in ApprovalPolicies : p.gate = "m1"}
    /\ use_real_verification = FALSE
    /\ symptoms = [service |-> "", metric |-> "", alert_name |-> ""]
    /\ budget \in TaskBudgets
    /\ initial_budget = budget
    /\ budget_policy = DefaultBudgetPolicy
    /\ llm_token_counts = {1}
    /\ sink_ok = TRUE
    /\ \E e \in BackEdges :
          LET g == add_edge(build_graph, "report", e.to_node, e.condition)
          IN /\ nodes = build_graph.nodes
             /\ transitions = g.transitions
             /\ edges = g.edges
    /\ context = ExecutionContext(EmptyMap)
    /\ task_status = "pending"
    /\ pc = "init"
    /\ current_node = Null
    /\ step = NoStep
    /\ run_result = {}
    /\ run_error = NoError
    /\ handlers_started = <<>>
    /\ executor_runs = 0
    /\ run_calls = [n \in {"investigate", "execute", "verify"} |-> 0]
    /\ verifier_raised = FALSE
    /\ llm_tokens = 0
    /\ tracer = TraceRecorder
    /\ trace_op = {}
    /\ trace_ops = 0

\* an orchestrator whose run is not started: its parameters and its task
RunIdle ==
    /\ caller_permission = "operator"
    /\ approval_policy \in {p \in ApprovalPolicies : p.gate = "m1"}
    /\ use_real_verification = TRUE
    /\ symptoms = [service |-> "", metric |-> "", alert_name |-> ""]
    /\ task_status = "pending"
    /\ budget = create_budget([max_tokens |-> MaxCeil,
                               max_time_seconds |-> MaxCeil,
                               max_tool_calls |-> MaxCeil])
    /\ initial_budget = budget
    /\ budget_policy = DefaultBudgetPolicy
    /\ llm_token_counts = {1}
    /\ llm_tokens = 0
    /\ tracer = TraceRecorder
    /\ sink_ok = TRUE
    /\ trace_op = {}
    /\ trace_ops = 0
    /\ pc = "idle"
    /\ current_node = Null
    /\ step = NoStep
    /\ run_result = {}
    /\ run_error = NoError
    /\ handlers_started = <<>>
    /\ executor_runs = 0
    /\ run_calls = [n \in {"investigate", "execute", "verify"} |-> 0]
    /\ verifier_raised = FALSE

\* an orchestrator that is built but whose run is not started
OrchIdle ==
    /\ RunIdle
    /\ nodes = build_graph.nodes
    /\ transitions = build_graph.transitions
    /\ edges = build_graph.edges
    /\ context = ExecutionContext(EmptyMap)

(***************************************************************************)
(* ApprovalPolicy and the report status, probed on their own               *)
(***************************************************************************)
\* every setting of the three policy flags
AllApprovalPolicies ==
    [auto_approve_read_only : BOOLEAN, auto_approve_safe_write : BOOLEAN,
     require_approval_for_risky : BOOLEAN, gate : {"m1"}]

\* every plan of at most MaxActions actions, flagged or not
ProbePlans ==
    {Plan(flagged, risks) : flagged \in BOOLEAN,
                            risks \in SeqsUpTo(RiskLevel, MaxActions)}

\* a client asks an ApprovalPolicy whether a plan requires approval
ProbeRequiresApproval ==
    /\ probe = {}
    /\ \E q \in probe_in :
          probe' = {[op |-> "requires_approval", policy |-> q.policy,
                     plan |-> q.plan,
                     returned |-> requires_approval(q.policy, q.plan)]}
    /\ UNCHANGED <<regVars, probe_in, orchVars, clientVars>>

\* a client asks an ApprovalPolicy to approve a plan
ProbeApprovePlan ==
    /\ probe = {}
    /\ \E q \in probe_in :
          probe' = {[op |-> "approve_plan", policy |-> q.policy,
                     plan |-> q.plan,
                     returned |-> approve_plan(q.policy, q.plan)]}
    /\ UNCHANGED <<regVars, probe_in, orchVars, clientVars>>

ApprovalInit ==
    /\ probe_in \in {{q} : q \in [policy : AllApprovalPolicies, plan : ProbePlans]}
    /\ probe = {}

\* what get_node_result("verify") or {} can be when the report is written
VerificationResults ==
    {{}} \cup
    {{[verified |-> v, status |-> st, checks |-> {}]} :
        <<v, st>> \in {<<TRUE, "improved">>, <<FALSE, "degraded">>,
                       <<FALSE, "unchanged">>, <<FALSE, "unknown">>,
                       <<FALSE, "error">>}}

\* what get_node_result("execute") or {} can be: nothing, the skipped
\* marker, or an executor output with its two counters
ExecutorResults ==
    {{}} \cup {{[status |-> "skipped", reason |-> "Plan not approved"]}} \cup
    {{[executed_actions |-> <<>>, success_count |-> a, failure_count |-> b]} :
        a \in 0..MaxActions, b \in 0..MaxActions}

\* the report stage determines the status from the two stage results
ProbeReportStatus ==
    /\ probe = {}
    /\ \E q \in probe_in :
          probe' = {[op |-> "report_status",
                     verification_result |-> q.verification_result,
                     executor_result |-> q.executor_result,
                     returned |-> report_status(q.verification_result,
                                                q.executor_result)]}
    /\ UNCHANGED <<regVars, probe_in, orchVars, clientVars>>

ReportInit ==
    /\ probe_in \in {{q} : q \in [verification_result : VerificationResults,
                                  executor_result : ExecutorResults]}
    /\ probe = {}

\* the symptoms a verification is asked about
VerifierSymptoms ==
    SymptomChoices \cup
    {[service |-> "auth-service", metric |-> "memory_percent",
      alert_name |-> "High CPU Usage"]}

\* the check lists the end of verify may be handed: some metric checks and
\* the error-log check, each passed or failed
CheckLists ==
    {{[type |-> "metric", metric |-> m, passed |-> pm[m], value |-> {}] :
          m \in DOMAIN pm}
     \cup {[type |-> "logs", metric |-> Null, passed |-> pl, value |-> {}]} :
        pm \in UNION {[M -> BOOLEAN] : M \in SUBSET DOMAIN DEFAULT_RULES},
        pl \in BOOLEAN}

\* a Verifier is asked to verify a task
ProbeVerify ==
    /\ probe = {}
    /\ \E q \in probe_in :
          /\ q.op = "verify"
          /\ probe' = {[op |-> "verify", real |-> q.real, sym |-> q.sym,
                        backend |-> q.backend,
                        returned |-> verify(q.real, q.sym, q.backend)]}
    /\ UNCHANGED <<regVars, probe_in, orchVars, clientVars>>

\* verify reaches its end with a list of checks
ProbeVerificationOutcome ==
    /\ probe = {}
    /\ \E q \in probe_in :
          /\ q.op = "verification_outcome"
          /\ probe' = {[op |-> "verification_outcome", checks |-> q.checks,
                        returned |-> verification_outcome(q.checks)]}
    /\ UNCHANGED <<regVars, probe_in, orchVars, clientVars>>

VerifierInit ==
    /\ probe_in \in
          {{q} : q \in [op : {"verify"}, real : BOOLEAN, sym : VerifierSymptoms,
                        backend : Backends]}
          \cup {{q} : q \in [op : {"verification_outcome"}, checks : CheckLists]}
    /\ probe = {}

(***************************************************************************)
(* A client that builds and drives a Graph of its own                      *)
(* (tests/orchestration/demo_orchestration.py)                             *)
(***************************************************************************)
NodeNames == {"a", "b"}

\* how much the client has done to its graph so far
OpCount == Cardinality(DOMAIN nodes) + Len(transitions) + Len(exec_log)

\* what a node handler of the client does when it is invoked: it returns
\* "A" after writing a score into the context state, returns "B" without
\* touching the state, or raises
ClientHandlers(ctx) ==
    {Returned("A", state_put(ctx.state, "score", 5)),
     Returned("A", state_put(ctx.state, "score", 0)),
     Returned("B", ctx.state),
     Raised("boom", ctx.state)}

\* graph.add_node(name, handler)
AddNode ==
    /\ OpCount < MaxOps
    /\ \E name \in NodeNames :
          LET out == add_node(nodes, name)
          IN /\ nodes' = out.nodes
             /\ graph_call' = {[op |-> "add_node", name |-> name,
                                raised |-> out.raised]}
    /\ UNCHANGED <<regVars, polVars, cfgVars, runVars, traceVars, transitions, edges,
                   context, exec_log, walk_node>>

\* graph.add_edge(from_node, to_node, condition)
AddEdge ==
    /\ OpCount < MaxOps
    /\ \E from_node \in NodeNames, to_node \in NodeNames,
          condition \in Conditions :
          LET out == add_edge([nodes |-> nodes, transitions |-> transitions,
                               edges |-> edges],
                              from_node, to_node, condition)
          IN /\ transitions' = out.transitions
             /\ edges' = out.edges
             /\ graph_call' = {[op |-> "add_edge", from_node |-> from_node,
                                to_node |-> to_node, raised |-> out.raised,
                                transitions_before |-> transitions,
                                edges_before |-> edges]}
    /\ UNCHANGED <<regVars, polVars, cfgVars, runVars, traceVars, nodes, context,
                   exec_log, walk_node>>

\* graph.get_next_nodes(current_node, context)
GetNextNodes ==
    /\ \E name \in NodeNames :
          graph_call' = {[op |-> "get_next_nodes", current_node |-> name,
                          returned |-> get_next_nodes(transitions, name, context)]}
    /\ UNCHANGED <<regVars, polVars, orchVars, exec_log, walk_node>>

\* graph.execute_node(node_name, context), called on its own
ExecuteNode ==
    /\ walk_node = Null
    /\ OpCount < MaxOps
    /\ \E name \in NodeNames, h \in ClientHandlers(context) :
          LET out == execute_node(nodes, context, name, h)
          IN /\ nodes' = out.nodes
             /\ context' = out.context
             /\ exec_log' = Append(exec_log, [node_name |-> name,
                                              success |-> out.success,
                                              result |-> out.result])
             /\ graph_call' = {[op |-> "execute_node", node_name |-> name,
                                success |-> out.success, result |-> out.result,
                                error |-> out.error, invoked |-> out.invoked,
                                raised |-> out.raised,
                                handler_raised |-> h.raised,
                                nodes_before |-> nodes,
                                context_before |-> context]}
    /\ UNCHANGED <<regVars, polVars, cfgVars, runVars, traceVars, transitions, edges,
                   walk_node>>

\* the client's loop is entered: current = <start node>
StartWalk ==
    /\ walk_node = Null
    /\ OpCount < MaxOps
    /\ \E name \in DOMAIN nodes :
          /\ walk_node' = name
          /\ graph_call' = {[op |-> "start_walk", node_name |-> name]}
    /\ UNCHANGED <<regVars, polVars, orchVars, exec_log>>

\* one turn of the client's loop: the current node is executed; a failure
\* leaves the loop; otherwise the first of get_next_nodes becomes current,
\* and the loop ends when there is none
WalkStep ==
    /\ walk_node # Null
    /\ OpCount < MaxOps
    /\ \E h \in ClientHandlers(context) :
          LET out == execute_node(nodes, context, walk_node, h)
              next_nodes == get_next_nodes(transitions, walk_node, out.context)
              chosen == IF ~out.success THEN Null
                        ELSE IF next_nodes # <<>> THEN Head(next_nodes)
                        ELSE Null
          IN /\ nodes' = out.nodes
             /\ context' = out.context
             /\ exec_log' = Append(exec_log, [node_name |-> walk_node,
                                              success |-> out.success,
                                              result |-> out.result])
             /\ walk_node' = chosen
             /\ graph_call' = {[op |-> "walk", node_name |-> walk_node,
                                success |-> out.success,
                                next_nodes |-> IF out.success THEN next_nodes
                                               ELSE <<>>,
                                chosen |-> chosen,
                                transitions_then |-> transitions]}
    /\ UNCHANGED <<regVars, polVars, cfgVars, runVars, traceVars, transitions, edges>>

\* no client graph is in use
ClientIdle ==
    /\ graph_call = {}
    /\ exec_log = <<>>
    /\ walk_node = Null

\* Graph() and ExecutionContext(task_id=..., state={})
ClientInit ==
    /\ nodes = EmptyMap
    /\ transitions = <<>>
    /\ edges = EmptyMap
    /\ context = ExecutionContext(EmptyMap)
    /\ graph_call = {}
    /\ exec_log = <<>>
    /\ walk_node = Null

\* the tool registry driven directly by its clients
RegNext == RegistryCall
InitRegistry == RegInit /\ PolIdle /\ OrchIdle /\ ClientIdle
SpecRegistry == InitRegistry /\ [][RegNext]_vars

\* a client that registers, lists, reads the audit log and calls
ToolsNext ==
    \/ Register
    \/ ListTools
    \/ GetAuditLog
    \/ ClientCall
InitTools == RegInit /\ PolIdle /\ OrchIdle /\ ClientIdle
SpecTools == InitTools /\ [][ToolsNext]_vars

\* the policy objects probed on their own
PolNext == ProbeBudget \/ ProbeFreshBudget
InitPolicies == RegInit /\ PolInit /\ OrchIdle /\ ClientIdle
SpecPolicies == InitPolicies /\ [][PolNext]_vars

\* the approval policy probed on its own
ApprovalNext == ProbeRequiresApproval \/ ProbeApprovePlan
InitApproval == RegInit /\ ApprovalInit /\ OrchIdle /\ ClientIdle
SpecApproval == InitApproval /\ [][ApprovalNext]_vars

\* the report stage's status rule probed on its own
ReportNext == ProbeReportStatus
InitReport == RegInit /\ ReportInit /\ OrchIdle /\ ClientIdle
SpecReport == InitReport /\ [][ReportNext]_vars

\* a Verifier asked to verify, and the end of verify on its own
VerifierNext ==
    \/ ProbeVerify
    \/ ProbeVerificationOutcome
InitVerifier == RegInit /\ VerifierInit /\ OrchIdle /\ ClientIdle
SpecVerifier == InitVerifier /\ [][VerifierNext]_vars

\* a client building and driving its own graph
GraphNext ==
    \/ AddNode
    \/ AddEdge
    \/ GetNextNodes
    \/ ExecuteNode
    \/ StartWalk
    \/ WalkStep
InitGraph == RegInit /\ PolIdle /\ RunIdle /\ ClientInit
SpecGraph == InitGraph /\ [][GraphNext]_vars

\* one run of the orchestrator on a fresh registry
Init == RegInit /\ PolIdle /\ OrchInit /\ ClientIdle

Next ==
    \/ StartRun
    \/ CheckBudget
    \/ NodeDetect
    \/ NodeTriage
    \/ NodeInvestigate
    \/ NodePlan
    \/ NodeApprove
    \/ NodeExecute
    \/ NodeVerify
    \/ NodeReport
    \/ RecordAndAdvance
    \/ Finish

Spec == Init /\ [][Next]_vars

\* the TraceRecorder under its two users: a client recording spans and
\* events while the trace file comes and goes, or a run of the orchestrator
TraceNext ==
    \/ StartSpan
    \/ EndSpan
    \/ RecordEvent
    \/ SinkChanges
    \/ Next
InitTracer == RegInit /\ PolIdle /\ (OrchIdle \/ TracedInit) /\ ClientIdle
SpecTracer == InitTracer /\ [][TraceNext]_vars

\* one run, over the budget policies and the token reports
InitInputs == RegInit /\ PolIdle /\ InputsInit /\ ClientIdle
SpecInputs == InitInputs /\ [][Next]_vars

\* the run loop over a graph with a cycle whose handlers always succeed
CycleNext ==
    \/ StartRun
    \/ CheckBudget
    \/ CycleNode
    \/ RecordAndAdvance
InitCycle == RegInit /\ PolIdle /\ CycleInit /\ ClientIdle
SpecCycle == InitCycle /\ [][CycleNext]_vars

(***************************************************************************)
(* Properties                                                              *)
(***************************************************************************)
IsPrefix(p, q) ==
    /\ Len(p) <= Len(q)
    /\ \A i \in 1..Len(p) : p[i] = q[i]

Occurrences(q, x) == Cardinality({i \in 1..Len(q) : q[i] = x})

\* C1: for every budget, BudgetPolicy.is_budget_exceeded (and so
\* Budget.is_exceeded, to which it delegates) answers true exactly when
\* tokens_used >= max_tokens or time_used >= max_time_seconds or
\* tool_calls_used >= max_tool_calls
C1_ExceededIffSomeCounterAtCeiling ==
    \A p \in probe :
        p.exceeded <=>
            \/ p.budget.tokens_used >= p.budget.max_tokens
            \/ p.budget.time_used >= p.budget.max_time_seconds
            \/ p.budget.tool_calls_used >= p.budget.max_tool_calls

\* a budget found exceeded on its tool-call counter alone, by a policy whose
\* own ceilings are all higher
C1_Witness ==
    \E p \in probe :
        /\ p.exceeded
        /\ p.budget.tokens_used < p.budget.max_tokens
        /\ p.budget.time_used < p.budget.max_time_seconds
        /\ p.budget.tool_calls_used >= p.budget.max_tool_calls
        /\ p.budget.tool_calls_used < p.policy.max_tool_calls

\* C2: no stage handler is started while the task's budget is exceeded; a
\* run that finds the budget exceeded aborts with "Budget exceeded" before
\* the stage, whose handler - like every later stage's - is never invoked
C2_BudgetCheckedBeforeEveryStage ==
    /\ pc = "execute" => ~is_exceeded(budget)
    /\ (pc = "raised" /\ run_error.kind = "Budget exceeded") =>
          /\ is_exceeded(budget)
          /\ run_result = {}
          /\ \A i \in 1..Len(handlers_started) :
                StageIndex(handlers_started[i]) < StageIndex(run_error.node)
          /\ \A n \in StageNames :
                StageIndex(n) >= StageIndex(run_error.node) =>
                    nodes[n].status = "pending"

\* a run aborted on the budget after it had executed at least two stages
C2_Witness ==
    /\ pc = "raised"
    /\ run_error.kind = "Budget exceeded"
    /\ Len(handlers_started) >= 2

\* the latest ToolRegistry.call was a dry run of a registered tool that is
\* not read-only
DryRunOfWriteTool(c) ==
    /\ c.dry_run
    /\ c.tool_name \in DOMAIN tools
    /\ tools[c.tool_name].risk_level # "read_only"

\* the result says dry_run: true, in its data or in its metadata
CarriesDryRun(r) ==
    \/ r.data = "would_execute"
    \/ "dry_run" \in DOMAIN r.metadata /\ r.metadata["dry_run"] = TRUE

\* C3: every ToolRegistry.call with dry_run=true on a tool that is not
\* read-only leaves the handler's call counter unchanged and returns a
\* result that carries dry_run: true
C3_DryRunNeverInvokesAndIsMarked ==
    \A c \in last_call, r \in last_result :
        DryRunOfWriteTool(c) =>
            /\ handler_calls = c.handlers_before
            /\ CarriesDryRun(r)

\* C4: every ToolRegistry.call appends exactly one AuditRecord, whatever
\* branch it takes: after n calls on a fresh registry the log has length n
C4_OneAuditRecordPerCall ==
    /\ Len(audit_log) = call_count
    /\ \A c \in last_call : Len(audit_log) = Len(c.audit_before) + 1

\* two calls were made, one denied for permission and one whose handler
\* raised
C4_Witness ==
    /\ call_count >= 2
    /\ \E i \in 1..Len(audit_log) : audit_log[i].error = "permission_denied"
    /\ \E i \in 1..Len(audit_log) : audit_log[i].error = "execution_failed"

\* guest < operator < admin
C5_Below(a, b) ==
    <<a, b>> \in {<<"guest", "operator">>, <<"guest", "admin">>,
                  <<"operator", "admin">>}

C6_EightStagesInOrder ==
    /\ IsPrefix(handlers_started, StageOrder)
    /\ pc = "raised" => run_error.kind \in {"Budget exceeded", "Node failed"}
    /\ pc = "returned" =>
          /\ handlers_started = StageOrder
          /\ context.execution_path = StageOrder

\* a run returned
C6_Witness ==
    /\ pc = "returned"
    /\ Len(context.execution_path) = 8

\* C7: a stage whose handler raised is marked failed with its error, is the
\* last stage executed, was executed once, and makes the run raise that
\* error without returning a Report
C7_StageFailureIsFatal ==
    \A n \in StageNames :
        nodes[n].status = "failed" =>
            /\ pc \in {"record", "raised"}
            /\ handlers_started # <<>>
            /\ handlers_started[Len(handlers_started)] = n
            /\ Occurrences(handlers_started, n) = 1
            /\ IsPrefix(handlers_started, StageOrder)
            /\ n \notin DOMAIN context.node_results
            /\ run_result = {}
            /\ pc = "raised" =>
                  run_error = [kind |-> "Node failed", node |-> n,
                               error |-> nodes[n].error]

\* the plan stage failed and the run raised
C7_Witness ==
    /\ pc = "raised"
    /\ nodes["plan"].status = "failed"
    /\ run_error.error = "llm error"

ErrorVerification == [verified |-> FALSE, status |-> "error", checks |-> {}]

\* C8: when Verifier.verify raises, the verify stage stores and returns a
\* result with verified=false and status "error", the node is recorded as
\* successful, and the run goes on to the report stage
C8_VerifierErrorIsData ==
    verifier_raised =>
        /\ nodes["verify"].status = "success"
        /\ context.state["verification"] = ErrorVerification
        /\ context.node_results["verify"] = ErrorVerification
        /\ pc = "record" /\ current_node = "verify" => step.success
        /\ pc \in {"check", "execute"} => current_node = "report"
        /\ pc = "raised" =>
              run_error.kind = "Budget exceeded" /\ run_error.node = "report"

\* the verifier raised and the run returned its report
C8_Witness ==
    /\ verifier_raised
    /\ pc = "returned"
    /\ context.execution_path[8] = "report"

\* C9: whenever the approve stage is reached it returns without raising
\* and stores {approved, reason} in the context state under "approval"
C9_ApproveNeverFails ==
    (\E i \in 1..Len(handlers_started) : handlers_started[i] = "approve") =>
        /\ nodes["approve"].status = "success"
        /\ "approval" \in DOMAIN context.state
        /\ DOMAIN context.state["approval"] = {"approved", "reason"}
        /\ context.state["approval"].approved \in BOOLEAN
        /\ context.node_results["approve"] = context.state["approval"]

\* the approve stage ran on a plan with write actions
C9_Witness ==
    /\ nodes["approve"].status = "success"
    /\ "plan" \in DOMAIN context.state
    /\ HasRisk(context.state["plan"], "risky_write")
    /\ context.state["approval"].approved

\* the execute stage has run on an approval that is absent or not approved
ExecutedUnapproved ==
    /\ nodes["execute"].status # "pending"
    /\ ~\E a \in state_get(context, "approval") : a.approved

\* C10: when the execute stage runs on an approval that is not approved (or
\* absent), it returns a skipped result without running the executor agent,
\* the node succeeds, and the run continues to verify and report
C10_UnapprovedExecuteIsSkipped ==
    ExecutedUnapproved =>
        /\ nodes["execute"].status = "success"
        /\ context.node_results["execute"] =
              [status |-> "skipped", reason |-> "Plan not approved"]
        /\ executor_runs = 0
        /\ \A i \in 1..Len(context.state["plan"].actions) :
              ~context.state["plan"].actions[i].executed
        /\ pc = "raised" => run_error.kind = "Budget exceeded"
        /\ pc = "returned" =>
              /\ context.execution_path[7] = "verify"
              /\ context.execution_path[8] = "report"

\* a run whose plan was not approved returned its report
C10_Witness ==
    /\ ExecutedUnapproved
    /\ pc = "returned"

\* some action of the plan has a risk level the policy's flags single out,
\* or the plan itself is flagged
PlanFlagged(policy, plan) ==
    \/ plan.approval_required
    \/ \E i \in 1..Len(plan.actions) :
          \/ /\ plan.actions[i].risk_level = "risky_write"
             /\ policy.require_approval_for_risky
          \/ /\ plan.actions[i].risk_level = "safe_write"
             /\ ~policy.auto_approve_safe_write
          \/ /\ plan.actions[i].risk_level = "read_only"
             /\ ~policy.auto_approve_read_only

RiskyCount(plan) ==
    Cardinality({i \in 1..Len(plan.actions) :
                    plan.actions[i].risk_level = "risky_write"})

\* C11: approve_plan answers approved=true for every plan and every setting
\* of the policy flags; the reason is "Auto-approved by policy" when the
\* plan does not require approval, and when it does and has risky_write
\* actions under require_approval_for_risky the reason quotes their number
C11_ApprovePlanAlwaysApproves ==
    \A p \in probe :
        p.op = "approve_plan" =>
            /\ p.returned.approved = TRUE
            /\ ~PlanFlagged(p.policy, p.plan) =>
                  p.returned.reason.text = "Auto-approved by policy"
            /\ (/\ PlanFlagged(p.policy, p.plan)
                /\ RiskyCount(p.plan) > 0
                /\ p.policy.require_approval_for_risky) =>
                  /\ p.returned.reason.text # "Auto-approved by policy"
                  /\ p.returned.reason.risky = RiskyCount(p.plan)

\* a plan of two risky actions was approved under require_approval_for_risky
\* with a reason that quotes the two
C11_Witness ==
    \E p \in probe :
        /\ p.op = "approve_plan"
        /\ p.policy.require_approval_for_risky
        /\ RiskyCount(p.plan) = 2
        /\ p.returned.approved
        /\ p.returned.reason.risky = 2

\* C12: requires_approval(plan) is true exactly when the plan is flagged
\* approval_required, or has a risky_write action while
\* require_approval_for_risky is set, or a safe_write action while
\* auto_approve_safe_write is not, or a read_only action while
\* auto_approve_read_only is not - for every plan and every flag setting
C12_RequiresApprovalIffFlagged ==
    \A p \in probe :
        p.op = "requires_approval" =>
            (p.returned <=> PlanFlagged(p.policy, p.plan))

\* an unflagged plan of read-only actions required approval because the
\* policy does not auto-approve read-only actions
C12_Witness ==
    \E p \in probe :
        /\ p.op = "requires_approval"
        /\ ~p.plan.approval_required
        /\ Len(p.plan.actions) > 0
        /\ \A i \in 1..Len(p.plan.actions) :
              p.plan.actions[i].risk_level = "read_only"
        /\ ~p.policy.auto_approve_read_only
        /\ p.policy.auto_approve_safe_write
        /\ ~p.policy.require_approval_for_risky
        /\ p.returned

\* C13: the report's status is "success" when the verify result says
\* verified, otherwise "partial" when the execute result counts at least one
\* failed action, otherwise "success" - so a skipped execute stage with a
\* verification that did not pass is reported "success"
C13_ReportStatusRule ==
    \A p \in probe :
        p.op = "report_status" =>
            LET verified == \E v \in p.verification_result : v.verified
                failures == \E e \in p.executor_result :
                               /\ "failure_count" \in DOMAIN e
                               /\ e.failure_count > 0
                skipped  == \E e \in p.executor_result :
                               /\ "status" \in DOMAIN e
                               /\ e.status = "skipped"
            IN /\ verified => p.returned = "success"
               /\ (~verified /\ failures) => p.returned = "partial"
               /\ (~verified /\ ~failures) => p.returned = "success"
               /\ (~verified /\ skipped) => p.returned = "success"

\* the execute stage was skipped, the verification found the service
\* degraded, and the status is "success"
C13_Witness ==
    \E p \in probe :
        /\ p.op = "report_status"
        /\ \E e \in p.executor_result :
              "status" \in DOMAIN e /\ e.status = "skipped"
        /\ \E v \in p.verification_result :
              ~v.verified /\ v.status = "degraded"
        /\ p.returned = "success"

RequiredMetadata == {"tool_name", "risk_level", "duration_ms", "dry_run"}

\* C15: the result of every ToolRegistry.call carries the metadata keys
\* tool_name, risk_level, duration_ms and dry_run, whatever branch the call
\* took
C15_ResultAlwaysCarriesMetadata ==
    \A r \in last_result : RequiredMetadata \subseteq DOMAIN r.metadata

\* C16: execute_node with a name that is no node returns (false, null,
\* "not found") without raising and without invoking a handler, and leaves
\* every node and the context's node_results, execution_path and
\* current_node as they were
C16_UnknownNodeIsReportedNotRaised ==
    \A c \in graph_call :
        (c.op = "execute_node" /\ c.node_name \notin DOMAIN c.nodes_before) =>
            /\ ~c.raised
            /\ ~c.success
            /\ c.result = {}
            /\ c.error = "not found"
            /\ ~c.invoked
            /\ nodes = c.nodes_before
            /\ context.node_results = c.context_before.node_results
            /\ context.execution_path = c.context_before.execution_path
            /\ context.current_node = c.context_before.current_node

\* a name that is no node was executed on a graph that has a node, after
\* that node had been executed
C16_Witness ==
    \E c \in graph_call :
        /\ c.op = "execute_node"
        /\ c.node_name \notin DOMAIN c.nodes_before
        /\ c.nodes_before # EmptyMap
        /\ c.context_before.current_node # Null
        /\ c.context_before.execution_path # <<>>
        /\ ~c.success

\* C17: add_edge raises when its source or its target is no node and then
\* leaves the edges and the transitions as they were; so every transition
\* and every edge joins two nodes, and get_next_nodes - and the loop that
\* follows it - only ever names nodes
C17_EdgesJoinRegisteredNodes ==
    /\ \A c \in graph_call :
          (/\ c.op = "add_edge"
           /\ (c.from_node \notin DOMAIN nodes \/ c.to_node \notin DOMAIN nodes)) =>
              /\ c.raised
              /\ transitions = c.transitions_before
              /\ edges = c.edges_before
    /\ \A i \in 1..Len(transitions) :
          /\ transitions[i].from_node \in DOMAIN nodes
          /\ transitions[i].to_node \in DOMAIN nodes
    /\ \A n \in DOMAIN edges :
          /\ n \in DOMAIN nodes
          /\ \A i \in 1..Len(edges[n]) : edges[n][i] \in DOMAIN nodes
    /\ \A c \in graph_call :
          /\ c.op = "get_next_nodes" =>
                \A i \in 1..Len(c.returned) : c.returned[i] \in DOMAIN nodes
          /\ c.op = "walk" => c.chosen \in DOMAIN nodes \cup {Null}

\* an edge from a node to a name that is no node was refused on a graph
\* that already had an edge
C17_Witness ==
    \E c \in graph_call :
        /\ c.op = "add_edge"
        /\ c.from_node \in DOMAIN nodes
        /\ c.to_node \notin DOMAIN nodes
        /\ c.raised
        /\ c.transitions_before # <<>>
        /\ transitions = c.transitions_before

\* C18: when the handler of a node raises, execute_node returns (false,
\* null, error) instead of raising, the node is failed and carries the
\* error, and the context's node_results and execution_path are as before
C18_HandlerErrorIsCaught ==
    \A c \in graph_call :
        (/\ c.op = "execute_node"
         /\ c.node_name \in DOMAIN c.nodes_before
         /\ c.handler_raised) =>
            /\ ~c.raised
            /\ ~c.success
            /\ c.result = {}
            /\ c.error = "boom"
            /\ nodes[c.node_name].status = "failed"
            /\ nodes[c.node_name].error = "boom"
            /\ context.node_results = c.context_before.node_results
            /\ context.execution_path = c.context_before.execution_path

\* the handler of a node that had succeeded before raised
C18_Witness ==
    \E c \in graph_call :
        /\ c.op = "execute_node"
        /\ c.handler_raised
        /\ c.node_name \in DOMAIN c.context_before.node_results
        /\ nodes[c.node_name].status = "failed"
        /\ context.execution_path = <<c.node_name>>

\* the names of the successful executions, in call order
SuccessfulNames ==
    LET ok == SelectSeq(exec_log, LAMBDA e : e.success)
    IN [i \in 1..Len(ok) |-> ok[i].node_name]

\* the result of the latest successful execution of node n, as {result}
LatestResult(n) ==
    LET at == {i \in 1..Len(exec_log) :
                  exec_log[i].node_name = n /\ exec_log[i].success}
        last == CHOOSE i \in at : \A j \in at : j <= i
    IN exec_log[last].result

C19_PathAndResultsAreTheSuccesses ==
    /\ context.execution_path = SuccessfulNames
    /\ DOMAIN context.node_results =
          {SuccessfulNames[i] : i \in 1..Len(SuccessfulNames)}
    /\ \A n \in DOMAIN context.node_results :
          {context.node_results[n]} = LatestResult(n)

C19_OnlyGrows ==
    /\ IsPrefix(context.execution_path, context'.execution_path)
    /\ DOMAIN context.node_results \subseteq DOMAIN context'.node_results

\* C19: after any sequence of execute_node calls, execution_path is the
\* sequence of the names whose execution succeeded, in call order, and
\* node_results maps each of them to the result of its latest success; the
\* path only grows at its end and node_results never loses a key
C19_PathAndResultsFollowSuccesses ==
    [](C19_PathAndResultsAreTheSuccesses) /\ [][C19_OnlyGrows]_vars

\* a node succeeded twice with two different results
C19_Witness ==
    /\ Len(exec_log) = 2
    /\ exec_log[1].node_name = exec_log[2].node_name
    /\ exec_log[1].success /\ exec_log[2].success
    /\ exec_log[1].result # exec_log[2].result
    /\ Len(context.execution_path) = 2

\* the guard is absent or true on the context
GuardAllows(condition, ctx) ==
    LET score == IF "score" \in DOMAIN ctx.state THEN ctx.state["score"] ELSE 0
    IN CASE condition = Null -> TRUE
         [] condition = "score >= 5" -> score >= 5
         [] condition = "score < 5" -> score < 5

\* the targets of the eligible edges out of a node, in registration order
EligibleTargets(current) ==
    LET eligible == SelectSeq(transitions,
                        LAMBDA t : /\ t.from_node = current
                                   /\ GuardAllows(t.condition, context))
    IN [i \in 1..Len(eligible) |-> eligible[i].to_node]

\* C20: get_next_nodes returns, in registration order, the targets of the
\* edges out of the current node whose guard is absent or true on the
\* context; the loop goes on with the first of them and ends when there is
\* none
C20_NextNodesInRegistrationOrder ==
    \A c \in graph_call :
        /\ c.op = "get_next_nodes" =>
              c.returned = EligibleTargets(c.current_node)
        /\ (c.op = "walk" /\ c.success) =>
              /\ c.next_nodes = EligibleTargets(c.node_name)
              /\ c.next_nodes = <<>> => walk_node = Null
              /\ c.next_nodes # <<>> => walk_node = c.next_nodes[1]

\* the loop left a node that has two eligible edges to different nodes, the
\* first of them guarded, and went on with the first
C20_Witness ==
    \E c \in graph_call :
        /\ c.op = "walk"
        /\ c.success
        /\ Len(c.next_nodes) = 2
        /\ c.next_nodes[1] # c.next_nodes[2]
        /\ transitions[1].condition # Null
        /\ walk_node = c.next_nodes[1]

\* C21: register raises when the name is already registered or the handler
\* is absent, and then leaves the registry as it was; otherwise it stores the
\* specification.  No step changes or removes a stored specification, so the
\* specification registered first for a name is the one calls are checked
\* against afterwards.
C21_RegisterOutcome ==
    \A o \in reg_op :
        o.op = "register" =>
            /\ o.raised <=> (o.spec.name \in DOMAIN o.tools_before
                             \/ o.handler = Null)
            /\ o.raised => (tools = o.tools_before /\ tool_order = o.order_before)
            /\ ~o.raised =>
                  /\ tools[o.spec.name] = o.spec
                  /\ DOMAIN tools = DOMAIN o.tools_before \cup {o.spec.name}
                  /\ \A n \in DOMAIN o.tools_before : tools[n] = o.tools_before[n]

C21_StartUpSpecsInUse ==
    /\ \A n \in DOMAIN RegisteredTools :
          n \in DOMAIN tools /\ tools[n] = RegisteredTools[n]
    /\ \A c \in last_call, r \in last_result :
          (/\ c.tool_name \in DOMAIN RegisteredTools
           /\ C5_Below(c.caller_permission,
                       RegisteredTools[c.tool_name].permission_required)) =>
              r.error = "permission_denied"
    /\ \A o \in reg_op :
          o.op = "list_tools" =>
              \A i \in 1..Len(o.returned) :
                  o.returned[i].name \in DOMAIN RegisteredTools =>
                      o.returned[i] = RegisteredTools[o.returned[i].name]

C21_SpecsAreKept ==
    \A n \in DOMAIN tools : n \in DOMAIN tools' /\ tools'[n] = tools[n]

C21_RegisterFailsOrKeepsFirstSpec ==
    /\ [](C21_RegisterOutcome /\ C21_StartUpSpecsInUse)
    /\ [][C21_SpecsAreKept]_vars

\* a registered name was registered again with a handler and a laxer
\* specification, which raised; a guest's call to it afterwards was denied
C21_Witness ==
    /\ \E o \in reg_op :
          /\ o.op = "register"
          /\ o.raised
          /\ o.handler # Null
          /\ o.spec.name = "restart_service"
          /\ o.spec # tools[o.spec.name]
          /\ o.ops_before = 0
    /\ reg_ops = 1
    /\ call_count = 1
    /\ \E c \in last_call, r \in last_result :
          /\ c.tool_name = "restart_service"
          /\ c.caller_permission = "guest"
          /\ r.error = "permission_denied"

C23_HandlerExceptionBecomesFailure ==
    \A c \in last_call :
        /\ ~c.raised
        /\ last_result # {}
        /\ c.handler_raised =>
              /\ \A r \in last_result :
                    ~r.success /\ r.error = "execution_failed"
              /\ Len(audit_log) = Len(c.audit_before) + 1
              /\ audit_log[Len(audit_log)].tool_name = c.tool_name
              /\ ~audit_log[Len(audit_log)].success
              /\ audit_log[Len(audit_log)].error = "execution_failed"

\* the handler of the latest call was invoked and raised
C23_Witness ==
    \E c \in last_call :
        /\ c.handler_raised
        /\ handler_calls[c.tool_name] = c.handlers_before[c.tool_name] + 1
        /\ last_result # {}

\* C24: a list_tools call returns the same list as every earlier list_tools
\* call with the same filters made since the latest register, whatever
\* call and get_audit_log invocations came in between
C24_ListToolsIsRepeatable ==
    \A o \in reg_op :
        o.op = "list_tools" =>
            \A e \in o.earlier :
                (/\ e.risk_level = o.risk_level
                 /\ e.permission_level = o.permission_level) =>
                    e.returned = o.returned

\* the same non-empty listing was obtained twice, with a call and a
\* get_audit_log between the two
C24_Witness ==
    \E o \in reg_op :
        /\ o.op = "list_tools"
        /\ o.returned # <<>>
        /\ \E e \in o.earlier, s \in log_seen :
              /\ e.risk_level = o.risk_level
              /\ e.permission_level = o.permission_level
              /\ e.calls_before < o.calls_before
              /\ e.ops_before < s.ops_before
              /\ s.ops_before < o.ops_before

\* whether the specification of the tool is an element of the list
C25_Listed(listing, tool) ==
    \E i \in 1..Len(listing) : listing[i] = tool

\* C25: list_tools(permission_level=p) returns exactly the registered tools
\* whose required permission does not rank above p, each once: a tool is
\* listed for p exactly when a call by a caller of level p is not rejected
\* by the permission check
C25_ListedIffCallable ==
    \A o \in reg_op :
        (/\ o.op = "list_tools"
         /\ o.risk_level = Null
         /\ o.permission_level # Null) =>
            /\ Len(o.returned) =
                  Cardinality({i \in 1..Len(tool_order) :
                                  C25_Listed(o.returned, tools[tool_order[i]])})
            /\ \A i \in 1..Len(o.returned) :
                  o.returned[i].name \in DOMAIN tools
                  /\ o.returned[i] = tools[o.returned[i].name]
            /\ \A n \in DOMAIN tools :
                  /\ C25_Listed(o.returned, tools[n]) <=>
                        ~C5_Below(o.permission_level,
                                  tools[n].permission_required)
                  /\ C25_Listed(o.returned, tools[n]) <=>
                        call(tools, audit_log, n, [k \in {} |-> Null],
                             o.permission_level, FALSE, FALSE).result.error
                            # "permission_denied"

\* a listing for operator held the operator-only tool and left out the
\* admin-only one
C25_Witness ==
    \E o \in reg_op :
        /\ o.op = "list_tools"
        /\ o.risk_level = Null
        /\ o.permission_level = "operator"
        /\ C25_Listed(o.returned, tools["restart_service"])
        /\ ~C25_Listed(o.returned, tools["update_config"])

\* the rule by which verify names its result
C26_Rule(v) ==
    LET failed == {c \in v.checks : ~c.passed}
    IN /\ v.verified <=> \A c \in v.checks : c.passed
       /\ v.verified => v.status = "improved"
       /\ (~v.verified /\ 2 * Cardinality(failed) > Cardinality(v.checks)) =>
             v.status = "degraded"
       /\ (~v.verified /\ 2 * Cardinality(failed) <= Cardinality(v.checks)) =>
             v.status = "unchanged"

\* C26: in real-verification mode with a service named, verify returns
\* verified=true exactly when every check passed; the status is "improved"
\* when verified, "degraded" when strictly more than half of the checks
\* failed, and "unchanged" otherwise
C26_VerifiedIffAllChecksPass ==
    \A p \in probe :
        /\ (/\ p.op = "verify"
            /\ p.real
            /\ p.sym.service # ""
            /\ ~p.returned.raised) => C26_Rule(p.returned.result)
        /\ p.op = "verification_outcome" =>
              /\ p.returned.checks = p.checks
              /\ C26_Rule(p.returned)

\* exactly half of the checks failed, and the result is "unchanged"
C26_Witness ==
    \E p \in probe :
        /\ p.op = "verification_outcome"
        /\ Cardinality(p.checks) = 2
        /\ Cardinality({c \in p.checks : ~c.passed}) = 1
        /\ ~p.returned.verified
        /\ p.returned.status = "unchanged"

\* C27: in a real verification of a named service, a metric check passes
\* exactly when the average query_metrics has for the metric is below the
\* rule's threshold (cpu_percent 80, memory_percent 85, request_latency_p99
\* 200), and the error-log check passes exactly when query_logs has fewer
\* than 5 entries
C27_ChecksFollowTheToolData ==
    \A p \in probe :
        (/\ p.op = "verify"
         /\ p.real
         /\ p.sym.service # ""
         /\ ~p.returned.raised) =>
            \A c \in p.returned.result.checks :
                /\ c.type = "metric" =>
                      (c.passed <=>
                         p.backend.avg < (CASE c.metric = "cpu_percent" -> 80
                                            [] c.metric = "memory_percent" -> 85
                                            [] OTHER -> 200))
                /\ c.type = "logs" =>
                      (c.passed <=> p.backend.total_entries < 5)

\* C28: in a real verification of a named service, every metric chosen
\* and the error logs have a check in the result; a check whose query failed
\* is there with passed=false, and then verified is false
C28_FailedQueryIsAFailedCheck ==
    \A p \in probe :
        (/\ p.op = "verify"
         /\ p.real
         /\ p.sym.service # ""
         /\ ~p.returned.raised) =>
            LET v  == p.returned.result
                ms == determine_metrics_to_check(p.sym)
                metric_failed ==
                    registry_query("query_metrics", p.backend.avg).kind # "data"
                logs_failed ==
                    registry_query("query_logs", p.backend.total_entries).kind
                        # "data"
            IN /\ Cardinality(v.checks) = Cardinality(ms) + 1
               /\ \A m \in ms :
                     \E c \in v.checks :
                         /\ c.type = "metric"
                         /\ c.metric = m
                         /\ metric_failed => ~c.passed
               /\ \E c \in v.checks :
                     c.type = "logs" /\ (logs_failed => ~c.passed)
               /\ ((metric_failed /\ ms # {}) \/ logs_failed) => ~v.verified

\* a real verification chose two metrics; all three queries failed and the
\* result holds three failed checks
C28_Witness ==
    \E p \in probe :
        /\ p.op = "verify"
        /\ p.real
        /\ ~p.returned.raised
        /\ Cardinality(p.returned.result.checks) = 3
        /\ \A c \in p.returned.result.checks : ~c.passed
        /\ ~p.returned.result.verified

\* C29: no step of a run lowers tokens_used, time_used or tool_calls_used
C29_Step ==
    /\ budget'.tokens_used >= budget.tokens_used
    /\ budget'.time_used >= budget.time_used
    /\ budget'.tool_calls_used >= budget.tool_calls_used

C29_CountersNeverDecrease == [][C29_Step]_vars

\* a run that started with a tool call already counted has gone through the
\* investigation, with more tool calls and more time counted
C29_Witness ==
    /\ "investigate" \in {handlers_started[i] : i \in 1..Len(handlers_started)}
    /\ initial_budget.tool_calls_used > 0
    /\ budget.tool_calls_used > initial_budget.tool_calls_used
    /\ budget.time_used > initial_budget.time_used

\* the record the latest call appended says what the call was
C30_RecordDescribesCall ==
    \E c \in last_call' :
        /\ audit_log' = Append(audit_log, audit_log'[Len(audit_log')])
        /\ audit_log'[Len(audit_log')].tool_name = c.tool_name
        /\ audit_log'[Len(audit_log')].caller_permission = c.caller_permission
        /\ audit_log'[Len(audit_log')].dry_run = c.dry_run
        /\ \A r \in last_result' :
              audit_log'[Len(audit_log')].success = r.success

C30_Step ==
    /\ IsPrefix(audit_log, audit_log')
    /\ call_count' = call_count + 1 => C30_RecordDescribesCall
    /\ call_count' = call_count => audit_log' = audit_log

\* C30: the audit log only grows at its end: the log at any time, and every
\* list get_audit_log returned, is a prefix of the log later; it has one
\* record per call, the i-th describing the i-th call (tool name, caller
\* permission, dry_run flag, success)
C30_AuditLogIsAppendOnly ==
    /\ [](/\ Len(audit_log) = call_count
          /\ \A s \in log_seen : IsPrefix(s.log, audit_log))
    /\ [][C30_Step]_vars

\* the log was read after a first call and a different call was recorded
\* after that
C30_Witness ==
    /\ Len(audit_log) = 2
    /\ audit_log[1].tool_name # audit_log[2].tool_name
    /\ audit_log[1].success # audit_log[2].success
    /\ \E s \in log_seen : s.log = <<audit_log[1]>>

\* the gates a call has to pass before the dry-run branch: the tool is
\* registered, the caller's rank reaches the tool's, no required field misses
C36_Unknown(c) == c.tool_name \notin DOMAIN tools

C36_Outranked(c) ==
    /\ c.tool_name \in DOMAIN tools
    /\ permission_level_value(c.caller_permission)
          < permission_level_value(tools[c.tool_name].permission_required)

C36_Incomplete(c) ==
    /\ c.tool_name \in DOMAIN tools
    /\ \E f \in tools[c.tool_name].required : f \notin DOMAIN c.args

C34_ApprovalStored ==
    \E a \in state_get(context, "approval") : a.approved

\* C34: within a run, no handler of a safe_write or risky_write tool is
\* invoked before the approve stage has stored approved = true; the
\* investigate stage invokes read-only tools only
C34_NoWriteHandlerBeforeApproval ==
    \A n \in DOMAIN tools :
        (tools[n].risk_level # "read_only" /\ handler_calls[n] > 0) =>
            C34_ApprovalStored

\* what the pre-stage check does is decided by the task's budget alone, and
\* neither the policy nor the task's ceilings change during the run
C32_Step ==
    /\ budget_policy' = budget_policy
    /\ budget'.max_tokens = budget.max_tokens
    /\ budget'.max_time_seconds = budget.max_time_seconds
    /\ budget'.max_tool_calls = budget.max_tool_calls
    /\ (pc = "check" /\ pc' # pc) =>
          pc' = IF is_exceeded(budget) THEN "raised" ELSE "execute"

\* C32: the run enforces the task's own budget, never the ceilings of the
\* orchestrator's BudgetPolicy: whatever policy the orchestrator holds, each
\* pre-stage check aborts the run exactly when the task's budget says it is
\* exceeded, so runs that differ only in the policy go the same way
C32_PolicyCeilingsNotEnforced == [][C32_Step]_vars

\* a run returned its report although every counter of the task's budget had
\* reached the policy's ceiling before the last stage
C32_Witness ==
    /\ pc = "returned"
    /\ budget_policy.max_tokens > 0
    /\ budget.time_used - step.duration >= budget_policy.max_time_seconds
    /\ budget.tool_calls_used >= budget_policy.max_tool_calls
    /\ llm_tokens >= budget_policy.max_tokens

\* C40: a run never writes task.budget.tokens_used, whatever the language
\* model's responses report; so a run that aborts on the token ceiling does
\* so at the first check, before any stage
C40_TokensUsedNeverWritten ==
    /\ budget.tokens_used = initial_budget.tokens_used
    /\ (pc = "raised" /\ run_error.kind = "Budget exceeded"
          /\ budget.tokens_used >= budget.max_tokens) =>
            /\ handlers_started = <<>>
            /\ initial_budget.tokens_used >= initial_budget.max_tokens

\* a run returned with tokens_used still zero although its language-model
\* responses reported at least max_tokens tokens
C40_Witness ==
    /\ pc = "returned"
    /\ llm_tokens >= budget.max_tokens
    /\ budget.tokens_used = 0
    /\ initial_budget.tokens_used = 0

\* every stage of the reference graph was executed and succeeded
C39_AllStagesSucceeded ==
    \A n \in StageNames : nodes[n].status = "success"

\* C39: on the reference pipeline run never raises "No report generated":
\* when the loop ends for want of a next node, the last node executed is
\* report and the context holds its result; run returns a Report exactly
\* when all eight stages executed successfully, and the Report is the report
\* stage's result
C39_NoReportAbortUnreachable ==
    /\ run_error.kind # "No report generated"
    /\ pc = "finish" =>
          /\ handlers_started # <<>>
          /\ handlers_started[Len(handlers_started)] = "report"
          /\ get_node_result(context, "report") # {}
    /\ pc = "returned" =>
          /\ C39_AllStagesSucceeded
          /\ context.execution_path = StageOrder
          /\ run_result # {}
          /\ run_result = get_node_result(context, "report")
    /\ pc = "raised" => ~C39_AllStagesSucceeded

\* the loop has just ended after the report stage, the report is in the
\* context and run is about to return it
C39_Witness ==
    /\ pc = "finish"
    /\ current_node = Null
    /\ context.execution_path = StageOrder
    /\ get_node_result(context, "report") # {}

\* the stage the loop executed last, and whether its result is recorded
C37_LastStage == handlers_started[Len(handlers_started)]

C37_LastStageRecorded ==
    /\ nodes[C37_LastStage].status = "success"
    /\ get_node_result(context, C37_LastStage) # {}
    /\ get_node_result(context, C37_LastStage) = step.result

C37_Step ==
    \* a stage that was started completes, whatever it does to the budget
    /\ (pc = "execute" /\ pc' # pc) =>
          /\ pc' = "record"
          /\ handlers_started' = Append(handlers_started, current_node)
          /\ step'.success =>
                get_node_result(context', current_node) = step'.result
    \* its time is charged and the loop moves on; after report the loop ends
    /\ (pc = "record" /\ pc' # pc /\ step.success) =>
          /\ context' = context
          /\ pc' = IF current_node = "report" THEN "finish" ELSE "check"
    \* an exceeded budget aborts the run before the next stage, with no Report
    /\ (pc = "check" /\ pc' # pc /\ is_exceeded(budget)) =>
          /\ pc' = "raised"
          /\ run_result' = {}
          /\ handlers_started' = handlers_started
    \* after the last stage the budget is not looked at
    /\ (pc = "finish" /\ pc' # pc) =>
          /\ pc' = "returned"
          /\ run_result' = get_node_result(context, "report")

\* C37: a run is never aborted in the middle of a stage and the budget is
\* not checked after the last stage: a stage during which the budget becomes
\* exceeded still completes and its result is recorded, the run then aborts
\* before the next stage and returns no Report; when the budget becomes
\* exceeded during the report stage, run still returns the Report
C37_BudgetAbortsBetweenStagesOnly ==
    /\ [](/\ pc = "raised" => run_result = {}
          /\ (pc = "raised" /\ run_error.kind = "Budget exceeded"
                /\ handlers_started # <<>>) =>
                /\ C37_LastStageRecorded
                /\ C37_LastStage # "report"
                /\ run_error.node \in StageNames
                /\ Occurrences(handlers_started, run_error.node) = 0)
    /\ [][C37_Step]_vars

\* the time budget was reached by the report stage itself, and run returned
\* the Report
C37_Witness ==
    /\ pc = "returned"
    /\ run_result # {}
    /\ is_exceeded(budget)
    /\ ~is_exceeded([budget EXCEPT !.time_used = @ - step.duration])
    /\ C37_LastStage = "report"

\* run has ended: it returned a Report or raised
C38_Ended == pc \in {"returned", "raised"}

\* how many steps run can still take at most: three per stage not yet
\* executed, and what is left of the current turn of the loop
C38_StepsLeft ==
    3 * (Len(StageOrder) - Len(handlers_started))
      + CASE pc = "init" -> 3
          [] pc = "check" -> 2
          [] pc = "execute" -> 1
          [] pc = "record" -> 3
          [] pc = "finish" -> 1
          [] OTHER -> 0

\* run is at a position from which it takes a step: before the loop, at the
\* loop's check, at a node of the graph (every node has its handler, which
\* returns or raises), at the loop's bookkeeping, or after the loop
C38_CanStep ==
    \/ pc \in {"init", "check", "record", "finish"}
    \/ pc = "execute" /\ current_node \in StageNames
                      /\ current_node \in DOMAIN nodes

\* C38: on the reference graph run always terminates, by returning a Report
\* or by raising, after at most eight node executions and with no node
\* executed twice (every stage handler returning or raising): the nodes
\* executed are a prefix of the eight stages in order, a run that has not
\* ended can take a step, and every step lowers a bound that is never
\* negative
C38_RunTerminates ==
    /\ [](/\ Len(handlers_started) <= 8
          /\ IsPrefix(handlers_started, StageOrder)
          /\ \A n \in StageNames : Occurrences(handlers_started, n) <= 1
          /\ C38_StepsLeft >= 0
          /\ C38_Ended <=> ~C38_CanStep
          /\ pc = "returned" => run_result # {}
          /\ pc = "raised" => run_error.kind # Null)
    /\ [][C38_StepsLeft' < C38_StepsLeft]_vars

\* a run that executed all eight stages, once each, and returned
C38_Witness ==
    /\ pc = "returned"
    /\ handlers_started = StageOrder
    /\ Len(handlers_started) = 8

\* the plan as the execute stage found it and as it left it, and the
\* stage's result
C35_Marked(before, after, out) ==
    /\ Len(after.actions) = Len(before.actions)
    /\ \A i \in 1..Len(after.actions) :
          /\ after.actions[i].tool_name = before.actions[i].tool_name
          /\ after.actions[i].executed
          /\ after.actions[i].dry_run
          /\ after.actions[i].result = "simulated_success"
          /\ after.actions[i].error = Null
    /\ out.executed_actions = after.actions
    /\ out.failure_count = 0
    /\ out.success_count = Len(before.actions)

C35_Step ==
    (AtNode("execute") /\ pc' # pc) =>
        /\ audit_log' = audit_log
        /\ handler_calls' = handler_calls
        /\ call_count' = call_count
        /\ step'.success
        /\ (\E a \in state_get(context, "approval") : a.approved) =>
              \A out \in step'.result :
                 C35_Marked(context.state["plan"], context'.state["plan"], out)
        /\ approval_policy.gate = "m1" =>
              \E a \in state_get(context, "approval") : a.approved

\* C35: the execute stage invokes no tool: for every plan, the stage leaves
\* the registry's audit log and every handler's call count as they were; the
\* plan having been approved, as the shipped ApprovalPolicy approves every
\* plan, it marks every action executed = true with dry_run = true and the
\* synthetic result, and reports failure_count = 0 and success_count = the
\* number of actions
C35_ExecuteInvokesNoTool == [][C35_Step]_vars

\* the execute stage has run on an approved plan of two write actions after
\* the investigation had made tool calls; both actions are marked and the
\* audit log holds the investigation's calls only
C35_Witness ==
    /\ nodes["execute"].status = "success"
    /\ executor_runs = 1
    /\ Len(context.state["plan"].actions) = 2
    /\ \A i \in 1..2 : /\ context.state["plan"].actions[i].executed
                       /\ context.state["plan"].actions[i].risk_level # "read_only"
    /\ context.node_results["execute"].success_count = 2
    /\ Len(audit_log) = run_calls["investigate"]
    /\ Len(audit_log) > 0

\* the call a client made, as it goes when the trace file can (or cannot) be
\* written
C33_Call(o, ok) ==
    CASE o.op = "start_span" ->
            start_span(o.before, "agent", o.args.name, ok)
      [] o.op = "end_span" ->
            end_span(o.before, o.args.span_id, o.args.status,
                     IF o.args.status = "failed" THEN "error" ELSE Null, ok)
      [] o.op = "record_event" ->
            record_event(o.before, "orchestrator", "info", o.args.span_id, ok)

\* what the tracer holds in memory
C33_Memory(tr) == [tr EXCEPT !.trace_file = <<>>]

\* a call on the tracer returns normally, returns what it returns over a
\* working file and leaves the same spans, events and metrics; only the
\* file differs
C33_CallUnaffected(o) ==
    /\ ~o.raised
    /\ o.value = C33_Call(o, TRUE).value
    /\ C33_Memory(tracer) = C33_Memory(C33_Call(o, TRUE).tracer)
    /\ o.sink_ok => tracer = C33_Call(o, TRUE).tracer
    /\ ~o.sink_ok => tracer.trace_file = o.before.trace_file
    /\ (o.op = "end_span" /\ o.args.span_id \notin DOMAIN o.before.spans) =>
          /\ o.value = {}
          /\ tracer.spans = o.before.spans
          /\ Len(tracer.events) = Len(o.before.events) + 1
          /\ tracer.events[Len(tracer.events)].event_type = "warning"

\* the spans of the stages run so far are what the stages' outcomes say
C33_StageSpans ==
    \A i \in 1..Len(handlers_started) :
        \E id \in DOMAIN tracer.spans :
            /\ tracer.spans[id].name = handlers_started[i]
            /\ tracer.spans[id].ended
            /\ tracer.spans[id].status =
                  IF nodes[handlers_started[i]].status = "failed" THEN "failed"
                  ELSE "success"

\* a run is not touched by the trace file: no tracer call makes run or a
\* stage raise, the spans in memory follow the stages, and the file is what
\* could be written
C33_RunUnaffected ==
    pc # "idle" =>
        /\ run_error.kind # "Trace failed"
        /\ step.error # "trace error"
        /\ pc # "init" =>
              /\ tracer.metrics.total_spans = 1 + Len(handlers_started)
              /\ C33_StageSpans
              /\ tracer.spans[workflow_span_id(tracer)].status =
                    CASE pc = "returned" -> "success"
                      [] pc = "raised" -> "failed"
                      [] OTHER -> "running"
        /\ ~sink_ok => tracer.trace_file = <<>>
        /\ pc = "returned" => C39_AllStagesSucceeded

\* C33: a failing trace sink never fails the run: when a trace record cannot
\* be written, or end_span is given an unknown span id, start_span, end_span
\* and record_event still return normally, with the same value and the same
\* spans, events and metrics as over a working sink, and the stages and the
\* run go on as they do when the sink works
C33_TraceSinkNeverFailsRun ==
    /\ \A o \in trace_op : C33_CallUnaffected(o)
    /\ C33_RunUnaffected

\* a run returned its report with all nine spans closed in memory and not a
\* line written to the trace file
C33_Witness ==
    /\ pc = "returned"
    /\ ~sink_ok
    /\ tracer.trace_file = <<>>
    /\ tracer.metrics.total_spans = 9
    /\ \A id \in DOMAIN tracer.spans : tracer.spans[id].ended

\* the walk has executed some node a second time
C31_Revisited ==
    \E i, j \in 1..Len(handlers_started) :
        i < j /\ handlers_started[i] = handlers_started[j]

C31_Step ==
    /\ (pc = "check" /\ pc' # pc) =>
          IF is_exceeded(budget)
          THEN pc' = "raised" /\ run_error'.kind = "Budget exceeded"
          ELSE pc' = "execute"
    /\ (pc = "execute" /\ pc' # pc) =>
          /\ pc' = "record"
          /\ step'.success
          /\ handlers_started' = Append(handlers_started, current_node)
    /\ (pc = "record" /\ pc' # pc) =>
          /\ pc' = "check"
          /\ current_node' \in DOMAIN nodes
    /\ (pc \in {"raised", "returned", "finish"}) => pc' = pc

C31_State ==
    /\ pc \notin {"finish", "returned"}
    /\ run_result = {}
    /\ pc = "raised" =>
          /\ run_error.kind = "Budget exceeded"
          /\ is_exceeded(budget)
    /\ Len(handlers_started) > Cardinality(DOMAIN nodes) => C31_Revisited

\* C31: no cycle detection: on a graph with a cycle whose handlers always
\* succeed and whose guards stay true, each executed node is followed by the
\* budget check of a next node, nodes already executed included; the loop is
\* never left for the report, no Report is returned, and the run ends only
\* by the budget check before a stage finding the budget exceeded
C31_CycleLoopsUntilBudgetAbort == [](C31_State) /\ [][C31_Step]_vars

\* the run went around the cycle, executed a node a second time, and was
\* then aborted by the budget check before its next stage
C31_Witness ==
    /\ pc = "raised"
    /\ run_error.kind = "Budget exceeded"
    /\ C31_Revisited
    /\ Len(handlers_started) > Cardinality(DOMAIN nodes)

====
